---- MODULE Spec2Model ----
(***************************************************************************)
(* A model of llmdc, the Markdown-to-LLMD compiler (tools/js/llmdc.js),    *)
(* and of the alias assignment of dcs_auto (tools/js/dcs_auto.js).         *)
(*                                                                         *)
(* A string is a sequence of one-character strings, so that every regular  *)
(* expression, trim, split and join of the source is computed character by *)
(* character.  compile() is a pipeline; every stage is one action (Emit is *)
(* one action per IR node, because its scope cursor, heading stack and KV  *)
(* buffer are state the claims speak about).                               *)
(***************************************************************************)
EXTENDS Integers, Sequences, FiniteSets, TLC

VARIABLES
  pc,            \* position in compile(): which stage runs next
  text,          \* compile's argument `text`: the source string
  config,        \* compile's argument `config`
  lines,         \* stage0's result
  cleanLines,    \* stage1's result .lines
  blocks,        \* stage1's result .blocks
  ir,            \* stage2's result
  nodeIdx,       \* emitLLMD: index of the next IR node of the main loop
  out,           \* emitLLMD's `out`, later compile's `output` (a list of strings)
  currentScope,  \* emitLLMD's `currentScope`: <<>> is null, <<s>> is the string s
  headingStack,  \* emitLLMD's `headingStack`
  kvBuffer,      \* emitLLMD's `kvBuffer`
  kvLog,         \* history: one record per flushKV call that emitted lines
  emitLog,       \* history: one record per line pushed outside flushKV
  result,        \* compile's return value (a string), <<>> until it returns
  calls,         \* number of compile invocations started so far
  prev,          \* history: arguments and outcome of the earlier invocations
  auto           \* dcs_auto.js: the locals of buildAutoDict, as a record

vars == <<pc, text, config, lines, cleanLines, blocks, ir, nodeIdx, out,
          currentScope, headingStack, kvBuffer, kvLog, emitLog, result, calls, prev,
          auto>>

\* ------------------------------------------------------------------------
\* Characters and strings
\* ------------------------------------------------------------------------
LowerSeq == <<"a","b","c","d","e","f","g","h","i","j","k","l","m",
              "n","o","p","q","r","s","t","u","v","w","x","y","z">>
UpperSeq == <<"A","B","C","D","E","F","G","H","I","J","K","L","M",
              "N","O","P","Q","R","S","T","U","V","W","X","Y","Z">>
DigitSeq == <<"0","1","2","3","4","5","6","7","8","9">>

Range(s) == { s[i] : i \in DOMAIN s }

Lower == Range(LowerSeq)
Upper == Range(UpperSeq)
Digit == Range(DigitSeq)
Letter == Lower \cup Upper
\* \w of a JavaScript regular expression
WordChar == Letter \cup Digit \cup {"_"}
\* \s of a JavaScript regular expression, as far as the model's alphabet goes
WS == {" ", "\t", "\n", "\r"}

Min(a, b) == IF a <= b THEN a ELSE b
Max(a, b) == IF a >= b THEN a ELSE b

\* String.prototype.toLowerCase, one character
LowerChar(c) ==
  IF c \in Upper THEN LowerSeq[CHOOSE i \in DOMAIN UpperSeq : UpperSeq[i] = c] ELSE c

ToLower(s) == [i \in DOMAIN s |-> LowerChar(s[i])]

\* s.slice(i) with a 0-based index i
Drop(s, i) == SubSeq(s, i + 1, Len(s))
\* s.slice(0, i)
Take(s, i) == SubSeq(s, 1, i)

\* s.startsWith(p)
StartsWith(s, p) == Len(p) <= Len(s) /\ SubSeq(s, 1, Len(p)) = p

\* the least element of a non-empty set of integers
SetMin(S) == CHOOSE x \in S : \A y \in S : x <= y
SetMax(S) == CHOOSE x \in S : \A y \in S : x >= y

\* number of leading characters of s that lie in the set cls
SpanLen(s, cls) ==
  LET stop == { i \in DOMAIN s : s[i] \notin cls } IN
  IF stop = {} THEN Len(s) ELSE SetMin(stop) - 1

\* number of trailing characters of s that lie in the set cls
SpanLenEnd(s, cls) ==
  LET stop == { i \in DOMAIN s : s[i] \notin cls } IN
  IF stop = {} THEN Len(s) ELSE Len(s) - SetMax(stop)

\* String.prototype.trimEnd / trimStart / trim
TrimEnd(s) == SubSeq(s, 1, Len(s) - SpanLenEnd(s, WS))
TrimStart(s) == Drop(s, SpanLen(s, WS))
Trim(s) == TrimStart(TrimEnd(s))

\* s.indexOf(p): the 0-based index of the first occurrence, -1 if none
IndexOf(s, p) ==
  LET hits == { i \in 0..(Len(s) - Len(p)) : SubSeq(s, i + 1, i + Len(p)) = p } IN
  IF hits = {} THEN -1 ELSE SetMin(hits)

\* s.includes(p)
Includes(s, p) == IndexOf(s, p) >= 0

\* s.lastIndexOf(c) for a single character c
LastIndexOfChar(s, c) ==
  LET hits == { i \in DOMAIN s : s[i] = c } IN
  IF hits = {} THEN -1 ELSE SetMax(hits) - 1

\* s.split(c) for a single character c: always at least one piece
RECURSIVE SplitChar(_, _)
SplitChar(s, c) ==
  LET i == IndexOf(s, <<c>>) IN
  IF i < 0 THEN <<s>>
  ELSE <<Take(s, i)>> \o SplitChar(Drop(s, i + 1), c)

\* parts.join(sep)
RECURSIVE Join(_, _)
Join(parts, sep) ==
  IF parts = <<>> THEN <<>>
  ELSE IF Len(parts) = 1 THEN parts[1]
  ELSE parts[1] \o sep \o Join(Tail(parts), sep)

\* s.replace(/\s+/g, " ")
RECURSIVE CollapseWS(_)
CollapseWS(s) ==
  IF s = <<>> THEN <<>>
  ELSE IF Head(s) \in WS THEN <<" ">> \o CollapseWS(Drop(s, SpanLen(s, WS)))
  ELSE <<Head(s)>> \o CollapseWS(Tail(s))

\* number of leading characters of s that do not lie in the set cls
SpanLenNot(s, cls) ==
  LET stop == { i \in DOMAIN s : s[i] \in cls } IN
  IF stop = {} THEN Len(s) ELSE SetMin(stop) - 1

\* s.split(/\s+/).filter(Boolean): the whitespace-separated tokens of s
RECURSIVE Tokens(_)
Tokens(s) ==
  LET t == TrimStart(s)
      k == SpanLenNot(t, WS) IN
  IF t = <<>> THEN <<>> ELSE <<Take(t, k)>> \o Tokens(Drop(t, k))

\* s.replace(new RegExp(escapeRegex(p), flags), r): every non-overlapping
\* occurrence of the literal p, left to right; ci is the "i" flag
RECURSIVE ReplaceAll(_, _, _, _)
ReplaceAll(s, p, r, ci) ==
  LET At(i) == IF p = <<>> \/ i < 0 THEN s
               ELSE Take(s, i) \o r \o ReplaceAll(Drop(s, i + Len(p)), p, r, ci) IN
  At(IF ci THEN IndexOf(ToLower(s), ToLower(p)) ELSE IndexOf(s, p))

\* the elements of s that satisfy Keep, in order
SelectIdx(s, Keep(_)) ==
  LET RECURSIVE F(_)
      F(i) == IF i > Len(s) THEN <<>>
              ELSE (IF Keep(s[i]) THEN <<s[i]>> ELSE <<>>) \o F(i + 1)
  IN F(1)

\* String(n) for a non-negative integer n
RECURSIVE ToDecimal(_)
ToDecimal(n) ==
  IF n < 10 THEN <<DigitSeq[n + 1]>>
  ELSE ToDecimal(n \div 10) \o <<DigitSeq[(n % 10) + 1]>>

\* parseInt(s) for a string of decimal digits
RECURSIVE ParseInt(_)
ParseInt(s) ==
  IF s = <<>> THEN 0
  ELSE 10 * ParseInt(SubSeq(s, 1, Len(s) - 1))
       + ((CHOOSE i \in DOMAIN DigitSeq : DigitSeq[i] = s[Len(s)]) - 1)

\* ------------------------------------------------------------------------
\* Stage 0: Normalize
\* ------------------------------------------------------------------------
\* text.replace(/\r\n/g, "\n").replace(/\r/g, "\n")
NormalizeEOL(t) == ReplaceAll(ReplaceAll(t, <<"\r", "\n">>, <<"\n">>, FALSE),
                              <<"\r">>, <<"\n">>, FALSE)

\* NFKC leaves every character of the model's alphabet unchanged
stage0(t) ==
  LET TrimEndAll(ls) == [i \in DOMAIN ls |-> TrimEnd(ls[i])] IN
  TrimEndAll(SplitChar(NormalizeEOL(t), "\n"))

\* ------------------------------------------------------------------------
\* Stage 1: Extract / Protect Blocks
\* ------------------------------------------------------------------------
\* the backquote character U+0060 (SANY accepts no backquote inside a string,
\* so the character is written as this atom)
Backtick == "BACKTICK"

\* line.match(/^(BACKTICK{3,})(\w*)\s*$/): <<>> when there is no match, else
\* <<m[1], m[2]>>
FenceOpen(line) ==
  LET Match(n, w) ==
        IF n >= 3 /\ SpanLen(Drop(line, n + w), WS) = Len(line) - (n + w)
        THEN <<Take(line, n), SubSeq(line, n + 1, n + w)>>
        ELSE <<>>
      Fence(n) == Match(n, SpanLen(Drop(line, n), WordChar)) IN
  Fence(SpanLen(line, {Backtick}))

\* the template literal ⟦BLOCK:${idx}⟧
Placeholder(idx) == <<"⟦", "B", "L", "O", "C", "K", ":">> \o ToDecimal(idx) \o <<"⟧">>

\* blocks.push({ index: idx, lang, content: buf.join("\n") })
Block(idx, lang, buf) == [index |-> idx, lang |-> lang, content |-> Join(buf, <<"\n">>)]

\* the state of stage1's loop
S1Init == [blocks |-> <<>>, out |-> <<>>, inBlock |-> FALSE,
           lang |-> <<>>, buf |-> <<>>, fence |-> <<>>]

\* one iteration of stage1's loop
S1Step(st, line) ==
  IF ~st.inBlock THEN
    LET Open(m) ==
          IF m # <<>>
          THEN [st EXCEPT !.inBlock = TRUE, !.fence = m[1], !.lang = m[2], !.buf = <<>>]
          ELSE [st EXCEPT !.out = Append(@, line)] IN
    Open(FenceOpen(line))
  ELSE
    IF TrimEnd(line) = st.fence
    THEN [st EXCEPT !.blocks = Append(@, Block(Len(st.blocks), st.lang, st.buf)),
                    !.out = Append(@, Placeholder(Len(st.blocks))),
                    !.inBlock = FALSE, !.fence = <<>>, !.lang = <<>>, !.buf = <<>>]
    ELSE [st EXCEPT !.buf = Append(@, line)]

RECURSIVE S1Loop(_, _)
S1Loop(st, ls) == IF ls = <<>> THEN st ELSE S1Loop(S1Step(st, Head(ls)), Tail(ls))

\* the fence still open at the end of the input
S1Tail(st) ==
  IF st.inBlock /\ Len(st.buf) > 0
  THEN [st EXCEPT !.blocks = Append(@, Block(Len(st.blocks), st.lang, st.buf)),
                  !.out = Append(@, Placeholder(Len(st.blocks)))]
  ELSE st

stage1(ls) ==
  LET Result(st) == [lines |-> st.out, blocks |-> st.blocks] IN
  Result(S1Tail(S1Loop(S1Init, ls)))

\* ------------------------------------------------------------------------
\* Stage 2: Parse to IR
\* ------------------------------------------------------------------------
\* an IR node; the fields a node type does not have are empty
Node(type) == [type |-> type, level |-> 0, text |-> <<>>, depth |-> 0, ordered |-> FALSE,
               key |-> <<>>, value |-> <<>>, rows |-> <<>>, index |-> 0]

\* the tail /\s+(.+)$/ of a pattern, matched at the start of s: <<>> when it
\* does not match, else <<the text (.+) captures>>.  \s+ is greedy; it gives
\* back one character only when nothing would be left for (.+)
MatchWsRest(s) ==
  LET Rest(w) == IF w = 0 THEN <<>>
                 ELSE IF w < Len(s) THEN <<Drop(s, w)>>
                 ELSE IF w >= 2 THEN <<Drop(s, w - 1)>>
                 ELSE <<>> IN
  Rest(SpanLen(s, WS))

\* RE_HEADING = /^(#{1,6})\s+(.+)$/: <<>> or <<m[1], m[2]>>
MatchHeading(t) ==
  LET Got(n, m) == IF n >= 1 /\ n <= 6 /\ m # <<>> THEN <<Take(t, n), m[1]>> ELSE <<>>
      Hashes(n) == Got(n, MatchWsRest(Drop(t, n))) IN
  Hashes(SpanLen(t, {"#"}))

\* RE_UL = /^(\s*)([-*+])\s+(.+)$/: <<>> or <<m[1], m[3]>>
MatchUL(line) ==
  LET Got(w, m) == IF w < Len(line) /\ line[w + 1] \in {"-", "*", "+"} /\ m # <<>>
                   THEN <<Take(line, w), m[1]>> ELSE <<>>
      Indent(w) == Got(w, IF w >= Len(line) THEN <<>> ELSE MatchWsRest(Drop(line, w + 1))) IN
  Indent(SpanLen(line, WS))

\* RE_OL = /^(\s*)(\d+)\.\s+(.+)$/: <<>> or <<m[1], m[3]>>
MatchOL(line) ==
  LET Got(w, d, m) == IF d >= 1 /\ w + d < Len(line) /\ line[w + d + 1] = "." /\ m # <<>>
                      THEN <<Take(line, w), m[1]>> ELSE <<>>
      Number(w, d) == Got(w, d, IF w + d >= Len(line) THEN <<>>
                                ELSE MatchWsRest(Drop(line, w + d + 1)))
      Indent(w) == Number(w, SpanLen(Drop(line, w), Digit)) IN
  Indent(SpanLen(line, WS))

\* RE_BLOCK_REF = /^\u27E6BLOCK:(\d+)\u27E7$/: <<>> or <<m[1]>>
MatchBlockRef(t) ==
  LET Got(d) == IF StartsWith(t, <<"⟦", "B", "L", "O", "C", "K", ":">>) /\ d >= 1
                   /\ Drop(t, 7 + d) = <<"⟧">>
                THEN <<SubSeq(t, 8, 7 + d)>> ELSE <<>> IN
  Got(SpanLen(Drop(t, 7), Digit))

KeyChar == Letter \cup Digit \cup {" ", "_", "-"}
KVKeyMax == 63

\* RE_KV = /^([A-Za-z][A-Za-z0-9 _-]{0,63})\s*:\s+(.+)$/: <<>> or <<m[1], m[2]>>.
\* The key class holds no ":" and no white space but the space, so the greedy
\* key is the only one that can be followed by \s*:
MatchKV(t) ==
  LET Got(k, colon, m) ==
        IF t # <<>> /\ Head(t) \in Letter /\ colon # <<>> /\ Head(colon) = ":" /\ m # <<>>
        THEN <<Take(t, k), m[1]>> ELSE <<>>
      Colon(k, colon) == Got(k, colon, IF colon = <<>> THEN <<>> ELSE MatchWsRest(Tail(colon)))
      Key(k) == Colon(k, TrimStart(Drop(t, k))) IN
  Key(IF t = <<>> THEN 0 ELSE 1 + Min(KVKeyMax, SpanLen(Tail(t), KeyChar)))

\* /^https?:\/\//.test(t)
IsUrl(t) == \/ StartsWith(t, <<"h","t","t","p",":","/","/">>)
            \/ StartsWith(t, <<"h","t","t","p","s",":","/","/">>)

isStructural(line) ==
  LET Structural(t) ==
        \/ t = <<>>
        \/ MatchHeading(t) # <<>>
        \/ MatchUL(t) # <<>> \/ MatchOL(t) # <<>>
        \/ MatchBlockRef(t) # <<>>
        \/ Includes(t, <<"|">>)
        \/ (MatchKV(t) # <<>> /\ ~IsUrl(t)) IN
  Structural(Trim(line))

\* parseRow of parseTableRows
parseRow(r) ==
  LET TrimAll(raw) == [i \in DOMAIN raw |-> Trim(raw[i])]
      DropFirst(cells) == IF Len(cells) > 0 /\ cells[1] = <<>> THEN Tail(cells) ELSE cells
      DropLast(cells) == IF Len(cells) > 0 /\ cells[Len(cells)] = <<>>
                         THEN Take(cells, Len(cells) - 1) ELSE cells IN
  DropLast(DropFirst(TrimAll(SplitChar(r, "|"))))

\* the while loop of parseTableRows from the 0-based index i
RECURSIVE TableDataRows(_, _)
TableDataRows(ls, i) ==
  IF i >= Len(ls) THEN [rows |-> <<>>, nextIdx |-> i]
  ELSE LET Rest(t, more) == [rows |-> <<parseRow(t)>> \o more.rows, nextIdx |-> more.nextIdx]
           Row(t) == IF t = <<>> \/ ~Includes(t, <<"|">>) THEN [rows |-> <<>>, nextIdx |-> i]
                     ELSE Rest(t, TableDataRows(ls, i + 1)) IN
       Row(Trim(ls[i + 1]))

parseTableRows(ls, startIdx) ==
  LET Table(data) ==
        [rows |-> <<parseRow(ls[startIdx + 1])>> \o data.rows, nextIdx |-> data.nextIdx] IN
  Table(TableDataRows(ls, startIdx + 2))

\* /^\|?[\s:-]+\|/.test(next) && /---/.test(next)
IsDelimiterRow(next) ==
  LET Span(s, n) == /\ n >= 1 /\ Len(s) > n /\ s[n + 1] = "|"
                    /\ Includes(next, <<"-", "-", "-">>)
      After(s) == Span(s, SpanLen(s, WS \cup {":", "-"})) IN
  After(IF next # <<>> /\ Head(next) = "|" THEN Tail(next) ELSE next)

\* the lines a paragraph that starts at the 0-based index i merges after its
\* first line
RECURSIVE ParaMore(_, _)
ParaMore(ls, i) ==
  IF i >= Len(ls) THEN <<>>
  ELSE LET More(nl) == IF nl = <<>> \/ isStructural(ls[i + 1]) THEN <<>>
                        ELSE <<nl>> \o ParaMore(ls, i + 1) IN
       More(Trim(ls[i + 1]))

\* one iteration of stage2's loop at the 0-based index i: the node it pushes and
\* the index it continues from
S2Step(ls, i) ==
  LET Table(tb) == [node |-> [Node("table") EXCEPT !.rows = tb.rows], next |-> tb.nextIdx]
      Paragraph(t, more) ==
        [node |-> [Node("paragraph") EXCEPT !.text = Join(<<t>> \o more, <<" ">>)],
         next |-> i + 1 + Len(more)]
      Step(line, t, blockM, headM, ulM, olM, kvM) ==
        IF t = <<>> THEN [node |-> Node("blank"), next |-> i + 1]
        ELSE IF blockM # <<>>
          THEN [node |-> [Node("block_ref") EXCEPT !.index = ParseInt(blockM[1])],
                next |-> i + 1]
        ELSE IF headM # <<>>
          THEN [node |-> [Node("heading") EXCEPT !.level = Len(headM[1]),
                                                 !.text = Trim(headM[2])],
                next |-> i + 1]
        ELSE IF /\ Includes(t, <<"|">>) /\ i + 1 < Len(ls)
                /\ IsDelimiterRow(Trim(ls[i + 2]))
          THEN Table(parseTableRows(ls, i))
        ELSE IF ulM # <<>>
          THEN [node |-> [Node("list_item") EXCEPT !.depth = Len(ulM[1]) \div 2,
                                                  !.text = Trim(ulM[2]), !.ordered = FALSE],
                next |-> i + 1]
        ELSE IF olM # <<>>
          THEN [node |-> [Node("list_item") EXCEPT !.depth = Len(olM[1]) \div 2,
                                                  !.text = Trim(olM[2]), !.ordered = TRUE],
                next |-> i + 1]
        ELSE IF kvM # <<>> /\ ~IsUrl(t)
          THEN [node |-> [Node("kv") EXCEPT !.key = kvM[1], !.value = Trim(kvM[2])],
                next |-> i + 1]
        ELSE Paragraph(t, ParaMore(ls, i + 1))
      Line(line, t) == Step(line, t, MatchBlockRef(t), MatchHeading(t), MatchUL(line),
                            MatchOL(line), MatchKV(t)) IN
  Line(ls[i + 1], Trim(ls[i + 1]))

RECURSIVE S2Loop(_, _)
S2Loop(ls, i) ==
  IF i >= Len(ls) THEN <<>>
  ELSE LET Rest(st) == <<st.node>> \o S2Loop(ls, st.next) IN Rest(S2Step(ls, i))

stage2(ls) == S2Loop(ls, 0)

\* ------------------------------------------------------------------------
\* Inline markdown processing
\* ------------------------------------------------------------------------
\* the least 0-based q >= from at which d occurs in s, -1 if none
FindFrom(s, d, from) ==
  LET At(k) == IF k < 0 THEN -1 ELSE from + k IN
  IF from > Len(s) THEN -1 ELSE At(IndexOf(Drop(s, from), d))

\* s.replace(/d(.+?)d/g, "$1") for a literal delimiter d (**, __, ~~): the
\* leftmost opening d that has a closing d at least one character later
RECURSIVE StripPair(_, _)
StripPair(s, d) ==
  LET Closes(p) == FindFrom(s, d, p + Len(d) + 1)
      Cut(p, q) ==
        Take(s, p) \o SubSeq(s, p + Len(d) + 1, q) \o StripPair(Drop(s, q + Len(d)), d)
      First(p) == Cut(p, Closes(p))
      Strip(opens) == IF opens = {} THEN s ELSE First(SetMin(opens)) IN
  Strip({ p \in 0..Len(s) : StartsWith(Drop(s, p), d) /\ Closes(p) >= 0 })

\* s.replace(/(?<!\*)\*(?!\*)(.+?)(?<!\*)\*(?!\*)/g, "$1")
RECURSIVE StripStar(_)
StripStar(s) ==
  LET Lone(p) == /\ p < Len(s) /\ s[p + 1] = "*"
                 /\ (p = 0 \/ s[p] # "*")
                 /\ (p + 1 = Len(s) \/ s[p + 2] # "*")
      Closing(p) == { q \in (p + 2)..(Len(s) - 1) : Lone(q) }
      Cut(p, q) == Take(s, p) \o SubSeq(s, p + 2, q) \o StripStar(Drop(s, q + 1))
      First(p) == Cut(p, SetMin(Closing(p)))
      Strip(opens) == IF opens = {} THEN s ELSE First(SetMin(opens)) IN
  Strip({ p \in 0..(Len(s) - 1) : Lone(p) /\ Closing(p) # {} })

\* s.replace(/BACKTICK([^BACKTICK]+)BACKTICK/g, "$1")
RECURSIVE StripCode(_)
StripCode(s) ==
  LET Span(p) == SpanLenNot(Drop(s, p + 1), {Backtick})
      Inside(p, n) == n >= 1 /\ p + 1 + n < Len(s)
      Opens(p) == p < Len(s) /\ s[p + 1] = Backtick /\ Inside(p, Span(p))
      Cut(p, n) == Take(s, p) \o SubSeq(s, p + 2, p + 1 + n) \o StripCode(Drop(s, p + n + 2))
      First(p) == Cut(p, Span(p))
      Strip(opens) == IF opens = {} THEN s ELSE First(SetMin(opens)) IN
  Strip({ p \in 0..(Len(s) - 1) : Opens(p) })

stripInlineMarkdown(t) ==
  StripPair(StripCode(StripStar(StripPair(StripPair(t, <<"*", "*">>), <<"_", "_">>))),
            <<"~", "~">>)

\* /\[([^\]]*)\]\(([^)]+)\)/ matched at the start of s: <<>> or
\* <<$1, $2, the length of the match>>
MatchLink(s) ==
  LET Got(a, b) ==
        IF /\ s # <<>> /\ Head(s) = "["
           /\ Len(s) >= a + 3 /\ s[a + 2] = "]" /\ s[a + 3] = "("
           /\ b >= 1 /\ Len(s) >= a + 3 + b + 1
        THEN <<SubSeq(s, 2, a + 1), SubSeq(s, a + 4, a + 3 + b), a + b + 4>>
        ELSE <<>>
      Label(a) == Got(a, SpanLenNot(Drop(s, a + 3), {")"})) IN
  Label(SpanLenNot(Drop(s, 1), {"]"}))

\* the replacement text of one link
LinkText(m, keep) == IF keep THEN m[1] \o <<"<">> \o m[2] \o <<">">> ELSE m[1]

\* text.replace(/!\[...\]\(...\)/g, ...) when bang, text.replace(/\[...\]\(...\)/g, ...)
\* when not
RECURSIVE ReplaceLinks(_, _, _)
ReplaceLinks(s, bang, keep) ==
  LET At(p) == IF bang /\ ~(p < Len(s) /\ s[p + 1] = "!") THEN <<>>
               ELSE MatchLink(Drop(s, p + (IF bang THEN 1 ELSE 0)))
      Cut(p, m) ==
        Take(s, p) \o LinkText(m, keep)
        \o ReplaceLinks(Drop(s, p + m[3] + (IF bang THEN 1 ELSE 0)), bang, keep)
      First(p) == Cut(p, At(p))
      Replace(opens) == IF opens = {} THEN s ELSE First(SetMin(opens)) IN
  Replace({ p \in 0..(Len(s) - 1) : At(p) # <<>> })

processLinks(t, keepUrls) == ReplaceLinks(ReplaceLinks(t, TRUE, keepUrls), FALSE, keepUrls)

processInline(t, compression, keepUrls) ==
  processLinks(stripInlineMarkdown(t), compression < 2 \/ keepUrls)

\* ------------------------------------------------------------------------
\* Scope normalization
\* ------------------------------------------------------------------------
\* s.replace(/\s+/g, "_")
Underscored(s) ==
  LET Under(c) == [i \in DOMAIN c |-> IF c[i] = " " THEN "_" ELSE c[i]] IN
  Under(CollapseWS(s))

\* s.replace(/[^...]/g, "") for the character class cls
OnlyChars(s, cls) == SelectIdx(s, LAMBDA c : c \in cls)

normScopeName(t, compression) ==
  LET Case(s) == IF compression >= 2 THEN ToLower(s) ELSE s IN
  Case(OnlyChars(Underscored(Trim(t)), Letter \cup Digit \cup {"_", "-"}))

normKey(t) ==
  LET TrimEndDash(a) == Take(a, Len(a) - SpanLenEnd(a, {"-"}))
      TrimDash(s) == TrimEndDash(Drop(s, SpanLen(s, {"-"}))) IN
  TrimDash(OnlyChars(Underscored(ToLower(Trim(t))), Lower \cup Digit \cup {"_", "-"}))

\* ------------------------------------------------------------------------
\* Stages 3+4: Scope Resolution + Emit LLMD
\* ------------------------------------------------------------------------
\* The local state of one emitLLMD call is the record
\*   [out, currentScope, headingStack, kvBuffer, kvLog, emitLog].
\* kvLog and emitLog are history: kvLog gets one record per flushKV call that
\* pushed lines (the buffer it flushed, where its lines start in out, how many
\* they are, the prefix it extracted as <<>> or <<prefix>>); emitLog gets one
\* record per line pushed outside flushKV (its place in out, the number of pairs
\* then pending in kvBuffer).

\* out.push(line) outside flushKV
Push(es, line) ==
  [es EXCEPT !.out = Append(@, line),
             !.emitLog = Append(@, [at |-> Len(es.out) + 1, pending |-> Len(es.kvBuffer)])]

\* the pop loop as a single test: at most one entry is taken off the stack
resolveScope_pop_once(es, level, t, cfg) ==
  LET Pop(st) == IF Len(st) > 0 /\ st[Len(st)].level >= level
                 THEN Take(st, Len(st) - 1) ELSE st
      Resolved(name, stack) ==
        [es |-> [es EXCEPT !.headingStack = stack],
         scope |-> IF cfg.scope_mode = "flat" THEN name
                   ELSE IF cfg.scope_mode \in {"concat", "stacked"}
                   THEN Join([i \in DOMAIN stack |-> stack[i].name], <<"_">>)
                   ELSE name]
      Named(name) ==
        Resolved(name, Append(Pop(es.headingStack), [level |-> level, name |-> name])) IN
  Named(normScopeName(t, cfg.compression))

\* the pop loop with > for >=: a heading of the same level stays on the stack
resolveScope_keep_sibling(es, level, t, cfg) ==
  LET RECURSIVE Pop(_)
      Pop(st) == IF Len(st) > 0 /\ st[Len(st)].level > level
                 THEN Pop(Take(st, Len(st) - 1)) ELSE st
      Resolved(name, stack) ==
        [es |-> [es EXCEPT !.headingStack = stack],
         scope |-> IF cfg.scope_mode = "flat" THEN name
                   ELSE IF cfg.scope_mode \in {"concat", "stacked"}
                   THEN Join([i \in DOMAIN stack |-> stack[i].name], <<"_">>)
                   ELSE name]
      Named(name) ==
        Resolved(name, Append(Pop(es.headingStack), [level |-> level, name |-> name])) IN
  Named(normScopeName(t, cfg.compression))

resolveScope(es, level, t, cfg) ==
  LET RECURSIVE Pop(_)
      Pop(st) == IF Len(st) > 0 /\ st[Len(st)].level >= level
                 THEN Pop(Take(st, Len(st) - 1)) ELSE st
      Resolved(name, stack) ==
        [es |-> [es EXCEPT !.headingStack = stack],
         scope |-> IF cfg.scope_mode = "flat" THEN name
                   ELSE IF cfg.scope_mode \in {"concat", "stacked"}
                   THEN Join([i \in DOMAIN stack |-> stack[i].name], <<"_">>)
                   ELSE name]
      Named(name) ==
        Resolved(name, Append(Pop(es.headingStack), [level |-> level, name |-> name])) IN
  Named(normScopeName(t, cfg.compression))

\* the test for an empty scope forgotten: a bare @ line is emitted
emitScope_empty(es, scope) ==
  IF es.currentScope # <<scope>>
  THEN [Push(es, <<"@">> \o scope) EXCEPT !.currentScope = <<scope>>]
  ELSE es

\* the comparison with the current scope forgotten: every heading emits its scope
emitScope_repeat(es, scope) ==
  IF scope # <<>>
  THEN [Push(es, <<"@">> \o scope) EXCEPT !.currentScope = <<scope>>]
  ELSE es

emitScope(es, scope) ==
  IF scope # <<>> /\ es.currentScope # <<scope>>
  THEN [Push(es, <<"@">> \o scope) EXCEPT !.currentScope = <<scope>>]
  ELSE es

\* ensureScope forgotten: content is emitted under no scope
ensureScope_skipped(es) == es

ensureScope(es) ==
  IF es.currentScope = <<>> THEN emitScope(es, <<"r", "o", "o", "t">>) ELSE es

processText(t, cfg) == processInline(t, cfg.compression, cfg.keep_urls)

\* val.split(/\s+/).length
SplitWsCount(val) == Len(SelectIdx(CollapseWS(val), LAMBDA c : c = " ")) + 1

\* the column count test with < for !==: a row longer than the header passes
classifyTable_longer_rows(rows) ==
  LET numCols == Len(rows[1])
      data == 2..Len(rows)
      first(r) == Trim(rows[r][1])
      identifier(v) == /\ v # <<>> /\ Head(v) \in Letter \cup {".", "_", "-"}
                       /\ SplitWsCount(v) <= 4 IN
  IF Len(rows) < 2 THEN "raw"
  ELSE IF \E r \in data : Len(rows[r]) < numCols THEN "raw"
  ELSE IF numCols < 2 THEN "raw"
  ELSE IF ~(/\ \A r1, r2 \in data : r1 # r2 => first(r1) # first(r2)
            /\ \A r \in data : identifier(first(r))) THEN "raw"
  ELSE IF numCols = 2 THEN "property"
  ELSE "keyed_multi"

classifyTable(rows) ==
  LET numCols == Len(rows[1])
      data == 2..Len(rows)
      first(r) == Trim(rows[r][1])
      identifier(v) == /\ v # <<>> /\ Head(v) \in Letter \cup {".", "_", "-"}
                       /\ SplitWsCount(v) <= 4 IN
  IF Len(rows) < 2 THEN "raw"
  ELSE IF \E r \in data : Len(rows[r]) # numCols THEN "raw"
  ELSE IF numCols < 2 THEN "raw"
  ELSE IF ~(/\ \A r1, r2 \in data : r1 # r2 => first(r1) # first(r2)
            /\ \A r \in data : identifier(first(r))) THEN "raw"
  ELSE IF numCols = 2 THEN "property"
  ELSE "keyed_multi"

GENERIC_HEADERS ==
  { <<"v","a","l","u","e">>, <<"d","e","s","c","r","i","p","t","i","o","n">>,
    <<"d","e","t","a","i","l","s">>, <<"i","n","f","o">>, <<"n","o","t","e","s">>,
    <<"d","e","f","a","u","l","t">>, <<"t","y","p","e">> }

isInformativeHeader(header) == header # <<>> /\ ToLower(Trim(header)) \notin GENERIC_HEADERS

boolCompress(cfg) == cfg.bool_compress /\ cfg.compression >= 2

\* BOOL_MAP as a set of <<key, value>>
BOOL_MAP ==
  { <<<<"y","e","s">>, <<"Y">>>>, <<<<"n","o">>, <<"N">>>>,
    <<<<"t","r","u","e">>, <<"T">>>>, <<<<"f","a","l","s","e">>, <<"F">>>>,
    <<<<"e","n","a","b","l","e","d">>, <<"Y">>>>,
    <<<<"d","i","s","a","b","l","e","d">>, <<"N">>>> }

InBoolMap(low) == \E e \in BOOL_MAP : e[1] = low

compressBoolValue(val, cfg) ==
  LET Mapped(low) == IF ~boolCompress(cfg) THEN val
                     ELSE IF InBoolMap(low) THEN (CHOOSE e \in BOOL_MAP : e[1] = low)[2]
                     ELSE val IN
  Mapped(ToLower(Trim(val)))

\* text.split(/(?<=[.!?])\s+(?=[A-Z])/): the pieces from the start of s
RECURSIVE SentencePieces(_, _)
SentencePieces(s, from) ==
  LET Gap(p, w) == p + w < Len(s) /\ s[p + w + 1] \in Upper
      Cut(p) == /\ p >= 1 /\ s[p] \in {".", "!", "?"}
                /\ p < Len(s) /\ s[p + 1] \in WS
                /\ Gap(p, SpanLen(Drop(s, p), WS))
      First(p) == <<SubSeq(s, from, p)>> \o SentencePieces(s, p + SpanLen(Drop(s, p), WS) + 1)
      Split(cuts) == IF cuts = {} THEN <<Drop(s, from - 1)>> ELSE First(SetMin(cuts)) IN
  Split({ p \in from..Len(s) : Cut(p) })

splitSentences(t, cfg) ==
  IF ~cfg.sentence_split \/ cfg.compression < 2 THEN <<t>>
  ELSE SelectIdx(SentencePieces(t, 1), LAMBDA x : Trim(x) # <<>>)

\* the loop of findCommonPrefix: shorten prefix until key starts with it
RECURSIVE ShrinkTo(_, _)
ShrinkTo(prefix, key) ==
  IF prefix = <<>> \/ StartsWith(key, prefix) THEN prefix
  ELSE ShrinkTo(Take(prefix, Len(prefix) - 1), key)

RECURSIVE CommonOf(_, _)
CommonOf(prefix, keys) ==
  IF keys = <<>> \/ prefix = <<>> THEN prefix
  ELSE CommonOf(ShrinkTo(prefix, Head(keys)), Tail(keys))

\* the trim to the last separator forgotten: the common prefix is returned whole
findCommonPrefix_untrimmed(keys) ==
  IF Len(keys) < 2 THEN <<>> ELSE CommonOf(keys[1], Tail(keys))

findCommonPrefix(keys) ==
  LET Cut(prefix, lastSep) == IF lastSep > 0 THEN Take(prefix, lastSep + 1) ELSE <<>>
      Trimmed(prefix) ==
        IF prefix = <<>> THEN <<>>
        ELSE Cut(prefix, Max(Max(LastIndexOfChar(prefix, "-"), LastIndexOfChar(prefix, "_")),
                             LastIndexOfChar(prefix, "."))) IN
  IF Len(keys) < 2 THEN <<>> ELSE Trimmed(CommonOf(keys[1], Tail(keys)))

\* kv.key + "=" + kv.value
Pair(kv) == kv.key \o <<"=">> \o kv.value

\* chunks one pair too long: slice(i, i + n + 1) and i += n + 1
RECURSIVE Chunks_long(_, _)
Chunks_long(kvs, n) ==
  LET Line(chunk) ==
        <<":">> \o Join([i \in DOMAIN chunk |-> chunk[i].key \o <<"=">> \o chunk[i].value],
                        <<" ">>) IN
  IF kvs = <<>> THEN <<>>
  ELSE <<Line(Take(kvs, Min(n + 1, Len(kvs))))>>
       \o Chunks_long(Drop(kvs, Min(n + 1, Len(kvs))), n)

\* the lines of one batch: for (i = 0; i < kvs.length; i += n) push(":" + chunk.join(" "))
RECURSIVE Chunks(_, _)
Chunks(kvs, n) ==
  LET Line(chunk) == <<":">> \o Join([i \in DOMAIN chunk |-> Pair(chunk[i])], <<" ">>) IN
  IF kvs = <<>> THEN <<>>
  ELSE <<Line(Take(kvs, Min(n, Len(kvs))))>> \o Chunks(Drop(kvs, Min(n, Len(kvs))), n)

\* matchCount / keys.length >= minPrefixPct, the fraction min_prefix_pct given
\* as num/den
PctReached(matchCount, total, pct) == matchCount * pct.den >= pct.num * total

\* the prefix flushKV extracts: <<>> when it extracts none, else <<prefix>>
FlushPrefix(buf, cfg) ==
  LET Extract(keys, prefix) ==
        IF /\ cfg.compression >= 1 /\ cfg.prefix_extraction /\ Len(buf) >= 3
           /\ Len(prefix) >= cfg.min_prefix_len
           /\ PctReached(Cardinality({ i \in DOMAIN keys : StartsWith(keys[i], prefix) }),
                         Len(keys), cfg.min_prefix_pct)
        THEN <<prefix>> ELSE <<>>
      Keys(keys) == Extract(keys, findCommonPrefix(keys)) IN
  Keys([i \in DOMAIN buf |-> buf[i].key])

\* the lines one flushKV call pushes for the buffer buf, px being the prefix it
\* extracts
FlushLines(buf, px, cfg) ==
  LET adjusted(prefix) ==
        [i \in DOMAIN buf |->
           [key |-> IF StartsWith(buf[i].key, prefix)
                    THEN Drop(buf[i].key, Len(prefix)) ELSE buf[i].key,
            value |-> buf[i].value]] IN
  IF px # <<>> THEN <<<<":", "_", "p", "f", "x", "=">> \o px[1]>>
                    \o Chunks(adjusted(px[1]), cfg.max_kv_per_line)
  ELSE IF cfg.compression >= 1 THEN Chunks(buf, cfg.max_kv_per_line)
  ELSE [i \in DOMAIN buf |-> <<":">> \o Pair(buf[i])]

flushKV(es, cfg) ==
  LET Flushed(px, new) ==
        [es EXCEPT !.out = @ \o new,
                   !.kvBuffer = <<>>,
                   !.kvLog = Append(@, [start |-> Len(es.out), count |-> Len(new),
                                        buffer |-> es.kvBuffer, prefix |-> px])]
      Extracted(px) == Flushed(px, FlushLines(es.kvBuffer, px, cfg)) IN
  IF Len(es.kvBuffer) = 0 THEN es ELSE Extracted(FlushPrefix(es.kvBuffer, cfg))

\* apply Step(es, x) to the elements x of xs, in order
RECURSIVE FoldEs(_, _, _)
FoldEs(Step(_, _), es, xs) ==
  IF xs = <<>> THEN es ELSE FoldEs(Step, Step(es, Head(xs)), Tail(xs))

EmitHeading(es, node, cfg) ==
  LET Emit(r) == emitScope(r.es, r.scope) IN
  Emit(resolveScope(es, node.level, node.text, cfg))

EmitParagraph(es, node, cfg) ==
  LET Sentence(e, trimmed) == IF trimmed # <<>> THEN Push(e, <<">">> \o trimmed) ELSE e
      One(e, sn) == Sentence(e, Trim(sn)) IN
  FoldEs(One, ensureScope(es), splitSentences(processText(node.text, cfg), cfg))

EmitListItem(es, node, cfg) ==
  LET prefix == [i \in 1..node.depth |-> "."] IN
  Push(ensureScope(es),
       <<">">> \o prefix \o (IF node.depth > 0 THEN <<" ">> ELSE <<>>)
       \o processText(node.text, cfg))

EmitKV(es, node, cfg) ==
  LET Buffered(e, k) ==
        IF k # <<>>
        THEN [e EXCEPT !.kvBuffer = Append(@, [key |-> k,
                                               value |-> processText(node.value, cfg)])]
        ELSE Push(e, <<">">> \o processText(node.key \o <<":", " ">> \o node.value, cfg)) IN
  Buffered(ensureScope(es), normKey(node.key))

\* the columns c >= 1 (0-based) whose data cells are all keys of BOOL_MAP
boolCols(rows, cfg) ==
  IF boolCompress(cfg) /\ Len(rows) > 1
  THEN { c \in 1..(Len(rows[1]) - 1) :
           \A r \in 2..Len(rows) :
              InBoolMap(ToLower(Trim(IF c + 1 <= Len(rows[r]) THEN rows[r][c + 1] ELSE <<>>))) }
  ELSE {}

processCell(cell, colIdx, rows, cfg) ==
  LET Cell(t) == IF colIdx \in boolCols(rows, cfg) THEN compressBoolValue(t, cfg) ELSE t IN
  Cell(processText(cell, cfg))

\* rows[0].map(h => normKey(h)).join("|")
ColHeaders(rows) == Join([i \in DOMAIN rows[1] |-> normKey(rows[1][i])], <<"|">>)

\* rows[r].map((c, ci) => processCell(c, ci)).join("|")
RawRow(row, rows, cfg) ==
  Join([i \in DOMAIN row |-> processCell(row[i], i - 1, rows, cfg)], <<"|">>)

EmitPropertyTable(es, rows, cfg) ==
  LET Header(colHeader) ==
        IF Len(rows[1]) >= 2 /\ isInformativeHeader(rows[1][2]) /\ colHeader # <<>>
        THEN Push(es, <<":", "_", "c", "o", "l", "=">> \o colHeader) ELSE es
      Row(e, row, k) ==
        IF k # <<>>
        THEN [e EXCEPT !.kvBuffer = Append(@, [key |-> k,
                                               value |-> processCell(row[2], 1, rows, cfg)])]
        ELSE Push(e, <<">">> \o processText(row[1] \o <<"|">> \o row[2], cfg))
      One(e, row) == Row(e, row, normKey(row[1])) IN
  FoldEs(One, Header(normKey(rows[1][2])), Tail(rows))

EmitKeyedTable(es, rows, cfg) ==
  LET e0 == Push(es, <<":", "_", "c", "o", "l", "s", "=">> \o ColHeaders(rows))
      vals(row) == [i \in 1..(Len(row) - 1) |-> processCell(row[i + 1], i, rows, cfg)]
      Row(e, row, k) ==
        IF k # <<>>
        THEN [e EXCEPT !.kvBuffer = Append(@, [key |-> k,
                                               value |-> Join(vals(row), <<"|">>)])]
        ELSE Push(e, <<">">> \o RawRow(row, rows, cfg))
      One(e, row) == Row(e, row, normKey(row[1])) IN
  FoldEs(One, e0, Tail(rows))

EmitRawTable(es, rows, cfg) ==
  LET e0 == IF Len(rows[1]) >= 2
            THEN Push(es, <<":", "_", "c", "o", "l", "s", "=">> \o ColHeaders(rows)) ELSE es
      One(e, row) == Push(e, <<">">> \o RawRow(row, rows, cfg)) IN
  FoldEs(One, e0, Tail(rows))

EmitTable(es, node, cfg) ==
  LET Typed(e, tableType) ==
        IF tableType = "property" THEN EmitPropertyTable(e, node.rows, cfg)
        ELSE IF tableType = "keyed_multi" THEN EmitKeyedTable(e, node.rows, cfg)
        ELSE EmitRawTable(e, node.rows, cfg) IN
  Typed(ensureScope(es), classifyTable(node.rows))

\* blocks[node.index] is undefined: reading block.lang throws a TypeError
BlockRefThrows(node, blks) == node.type = "block_ref" /\ node.index >= Len(blks)

EmitBlockRef(es, node, blks) ==
  LET Group(block) ==
        Push(Push(Push(Push(ensureScope(es),
                            <<":", ":">> \o (IF block.lang # <<>> THEN block.lang
                                             ELSE <<"c", "o", "d", "e">>)),
                       <<"<", "<", "<">>),
                  block.content),
             <<">", ">", ">">>) IN
  Group(blks[node.index + 1])

\* one iteration of emitLLMD's main loop that does not throw
EmitOne(es, node, blks, cfg) ==
  LET Case(e) ==
        CASE node.type = "heading" -> EmitHeading(e, node, cfg)
          [] node.type = "paragraph" -> EmitParagraph(e, node, cfg)
          [] node.type = "list_item" -> EmitListItem(e, node, cfg)
          [] node.type = "kv" -> EmitKV(e, node, cfg)
          [] node.type = "table" -> EmitTable(e, node, cfg)
          [] node.type = "block_ref" -> EmitBlockRef(e, node, blks)
          [] OTHER -> e IN
  Case(IF node.type # "kv" THEN flushKV(es, cfg) ELSE es)

\* ------------------------------------------------------------------------
\* Stage 5: Compression Passes
\* ------------------------------------------------------------------------
compressC0(ls) ==
  SelectIdx([i \in DOMAIN ls |-> Trim(CollapseWS(ls[i]))], LAMBDA t : t # <<>>)

compressC1(ls) == compressC0(ls)

\* Object.keys(map).sort((a, b) => b.length - a.length): a stable sort of the
\* entries <<key, value>> of map by the length of the key, longest first
RECURSIVE SortByLenDesc(_)
SortByLenDesc(map) ==
  IF map = <<>> THEN <<>>
  ELSE LET i == CHOOSE x \in DOMAIN map :
                  /\ \A y \in DOMAIN map : Len(map[y][1]) <= Len(map[x][1])
                  /\ \A y \in 1..(x - 1) : Len(map[y][1]) < Len(map[x][1]) IN
       <<map[i]>> \o SortByLenDesc(Take(map, i - 1) \o Drop(map, i))

\* body.replace(new RegExp("(\\d+)\\s+" + escapeRegex(unit), "gi"), "$1" + repl); no
\* unit of the model starts with white space
RECURSIVE ReplaceNumUnit(_, _, _)
ReplaceNumUnit(s, unit, repl) ==
  LET At(p) == LET d == SpanLen(Drop(s, p), Digit)
                   w == SpanLen(Drop(s, p + d), WS) IN
               IF d >= 1 /\ w >= 1 /\ StartsWith(ToLower(Drop(s, p + d + w)), ToLower(unit))
               THEN d + w + Len(unit) ELSE 0
      opens == { p \in 0..(Len(s) - 1) : At(p) > 0 } IN
  IF unit = <<>> \/ opens = {} THEN s
  ELSE LET p == SetMin(opens) IN
       Take(s, p + SpanLen(Drop(s, p), Digit)) \o repl
       \o ReplaceNumUnit(Drop(s, p + At(p)), unit, repl)

\* the phrase-map loop of compressC2 over the sorted entries
RECURSIVE ApplyPhrases(_, _)
ApplyPhrases(body, phrases) ==
  IF phrases = <<>> THEN body
  ELSE ApplyPhrases(ReplaceAll(body, Head(phrases)[1], Head(phrases)[2], TRUE), Tail(phrases))

\* the unit loop of compressC2 over the sorted entries
RECURSIVE ApplyUnits(_, _)
ApplyUnits(body, units) ==
  IF units = <<>> THEN body
  ELSE LET u == Head(units) IN
       ApplyUnits(ReplaceAll(ReplaceNumUnit(body, u[1], u[2]), u[1], u[2], TRUE), Tail(units))

\* t.toLowerCase().replace(/[^a-z]/g, "")
LetterCore(t) == OnlyChars(ToLower(t), Lower)

\* the protect-words test forgotten: a protected stopword is dropped
KeepToken_unprotected(t, cfg) ==
  LET Keep(low) == \/ low = <<>>
                   \/ low \notin { ToLower(w) : w \in cfg.stopwords } IN
  Keep(LetterCore(t))

\* the token filter of the stopword removal
KeepToken(t, cfg) ==
  LET Keep(low) == \/ low = <<>>
                   \/ low \in { ToLower(w) : w \in cfg.protect_words }
                   \/ low \notin { ToLower(w) : w \in cfg.stopwords } IN
  Keep(LetterCore(t))

RemoveStopwords(line, cfg) ==
  <<">">> \o Join(SelectIdx(Tokens(Tail(line)), LAMBDA t : KeepToken(t, cfg)), <<" ">>)

\* what compressC2 maps a line outside a block to
C2Line(line, cfg) ==
  LET Stopped(mapped) ==
        IF StartsWith(mapped, <<">">>) THEN RemoveStopwords(mapped, cfg) ELSE mapped IN
  IF StartsWith(line, <<":", ":">>) \/ StartsWith(line, <<"@">>) THEN line
  ELSE Stopped(IF StartsWith(line, <<">">>) \/ StartsWith(line, <<":">>)
               THEN <<Head(line)>>
                    \o ApplyUnits(ApplyPhrases(Tail(line), SortByLenDesc(cfg.phrase_map)),
                                  SortByLenDesc(cfg.units))
               ELSE line)

BlockOpen == <<"<", "<", "<">>
BlockClose == <<">", ">", ">">>

\* lines.map(...) of compressC2; inBlock is the flag the callback keeps
RECURSIVE C2Map(_, _, _)
C2Map(ls, inBlock, cfg) ==
  IF ls = <<>> THEN <<>>
  ELSE LET line == Head(ls) IN
       IF line = BlockOpen THEN <<line>> \o C2Map(Tail(ls), TRUE, cfg)
       ELSE IF line = BlockClose THEN <<line>> \o C2Map(Tail(ls), FALSE, cfg)
       ELSE IF inBlock THEN <<line>> \o C2Map(Tail(ls), inBlock, cfg)
       ELSE <<C2Line(line, cfg)>> \o C2Map(Tail(ls), inBlock, cfg)

compressC2(ls, cfg) == C2Map(ls, FALSE, cfg)

\* ------------------------------------------------------------------------
\* Stage 6: Post-processing
\* ------------------------------------------------------------------------
\* the validation loop: the 1-based numbers of the lines it reports
RECURSIVE S6Errors(_, _, _, _)
S6Errors(ls, i, firstScope, inBlock) ==
  IF i > Len(ls) THEN <<>>
  ELSE LET line == ls[i] IN
       IF line = BlockOpen THEN S6Errors(ls, i + 1, firstScope, TRUE)
       ELSE IF line = BlockClose THEN S6Errors(ls, i + 1, firstScope, FALSE)
       ELSE IF inBlock THEN S6Errors(ls, i + 1, firstScope, inBlock)
       ELSE IF StartsWith(line, <<"@">>) THEN S6Errors(ls, i + 1, TRUE, inBlock)
       ELSE IF StartsWith(line, <<"~">>) THEN S6Errors(ls, i + 1, firstScope, inBlock)
       ELSE IF ~firstScope /\ (\/ StartsWith(line, <<":">>) \/ StartsWith(line, <<">">>)
                               \/ StartsWith(line, <<"-", ">">>))
            THEN <<i>> \o S6Errors(ls, i + 1, firstScope, inBlock)
       ELSE S6Errors(ls, i + 1, firstScope, inBlock)

\* out.push(line) after an anchor forgotten: the anchor takes the line's place
RECURSIVE S6Anchors_replacing(_, _, _, _)
S6Anchors_replacing(ls, scope, linesSinceAnchor, anchorEvery) ==
  IF ls = <<>> THEN <<>>
  ELSE LET line == Head(ls) IN
       IF StartsWith(line, <<"@">>)
       THEN <<line>> \o S6Anchors_replacing(Tail(ls), <<line>>, 0, anchorEvery)
       ELSE IF anchorEvery > 0 /\ linesSinceAnchor + 1 >= anchorEvery /\ scope # <<>>
            THEN <<scope[1]>> \o S6Anchors_replacing(Tail(ls), scope, 0, anchorEvery)
       ELSE <<line>> \o S6Anchors_replacing(Tail(ls), scope, linesSinceAnchor + 1, anchorEvery)

\* the anchor loop; scope is <<>> for null, else <<the scope line>>
RECURSIVE S6Anchors(_, _, _, _)
S6Anchors(ls, scope, linesSinceAnchor, anchorEvery) ==
  IF ls = <<>> THEN <<>>
  ELSE LET line == Head(ls) IN
       IF StartsWith(line, <<"@">>)
       THEN <<line>> \o S6Anchors(Tail(ls), <<line>>, 0, anchorEvery)
       ELSE IF anchorEvery > 0 /\ linesSinceAnchor + 1 >= anchorEvery /\ scope # <<>>
            THEN <<scope[1], line>> \o S6Anchors(Tail(ls), scope, 0, anchorEvery)
       ELSE <<line>> \o S6Anchors(Tail(ls), scope, linesSinceAnchor + 1, anchorEvery)

stage6(ls, cfg) ==
  IF cfg.anchor_every > 0 THEN S6Anchors(ls, <<>>, 0, cfg.anchor_every) ELSE ls

\* ------------------------------------------------------------------------
\* Main Compile Pipeline
\* ------------------------------------------------------------------------
\* the state of emitLLMD's locals as a record, and back
EmitState == [out |-> out, currentScope |-> currentScope, headingStack |-> headingStack,
              kvBuffer |-> kvBuffer, kvLog |-> kvLog, emitLog |-> emitLog]

SetEmitState(es) ==
  /\ out' = es.out
  /\ currentScope' = es.currentScope
  /\ headingStack' = es.headingStack
  /\ kvBuffer' = es.kvBuffer
  /\ kvLog' = es.kvLog
  /\ emitLog' = es.emitLog

\* the scope cursor and the heading stack kept outside emitLLMD: they survive a call
FreshEmitState_shared ==
  [out |-> <<>>, currentScope |-> currentScope, headingStack |-> headingStack,
   kvBuffer |-> <<>>, kvLog |-> <<>>, emitLog |-> <<>>]

\* the locals of emitLLMD when it is entered
FreshEmitState == [out |-> <<>>, currentScope |-> <<>>, headingStack |-> <<>>,
                   kvBuffer |-> <<>>, kvLog |-> <<>>, emitLog |-> <<>>]

\* compile is entered with the arguments (src, cfg)
Enter(src, cfg) ==
  /\ pc = "stage0"
  /\ text = src
  /\ config = cfg
  /\ lines = <<>>
  /\ cleanLines = <<>>
  /\ blocks = <<>>
  /\ ir = <<>>
  /\ nodeIdx = 0
  /\ out = <<>>
  /\ currentScope = <<>>
  /\ headingStack = <<>>
  /\ kvBuffer = <<>>
  /\ kvLog = <<>>
  /\ emitLog = <<>>
  /\ result = <<>>
  /\ auto = [pc |-> "off"]

Stage0 ==
  /\ pc = "stage0"
  /\ lines' = stage0(text)
  /\ pc' = "stage1"
  /\ UNCHANGED <<text, config, cleanLines, blocks, ir, nodeIdx, out, currentScope,
                 headingStack, kvBuffer, kvLog, emitLog, result, calls, prev, auto>>

Stage1 ==
  /\ pc = "stage1"
  /\ cleanLines' = stage1(lines).lines
  /\ blocks' = stage1(lines).blocks
  /\ pc' = "stage2"
  /\ UNCHANGED <<text, config, lines, ir, nodeIdx, out, currentScope,
                 headingStack, kvBuffer, kvLog, emitLog, result, calls, prev, auto>>

Stage2 ==
  /\ pc = "stage2"
  /\ ir' = stage2(cleanLines)
  /\ pc' = "emit"
  /\ UNCHANGED <<text, config, lines, cleanLines, blocks, nodeIdx, out, currentScope,
                 headingStack, kvBuffer, kvLog, emitLog, result, calls, prev, auto>>

\* emitLLMD is entered: its locals are created
EmitBegin ==
  /\ pc = "emit"
  /\ SetEmitState(FreshEmitState)
  /\ nodeIdx' = 1
  /\ pc' = "emitloop"
  /\ UNCHANGED <<text, config, lines, cleanLines, blocks, ir, result, calls, prev, auto>>

\* one iteration of `for (const node of ir)`
EmitNode ==
  /\ pc = "emitloop"
  /\ nodeIdx <= Len(ir)
  /\ IF BlockRefThrows(ir[nodeIdx], blocks)
     THEN /\ pc' = "threw"
          /\ UNCHANGED <<nodeIdx, out, currentScope, headingStack, kvBuffer, kvLog, emitLog>>
     ELSE /\ SetEmitState(EmitOne(EmitState, ir[nodeIdx], blocks, config))
          /\ nodeIdx' = nodeIdx + 1
          /\ pc' = "emitloop"
  /\ UNCHANGED <<text, config, lines, cleanLines, blocks, ir, result, calls, prev, auto>>

\* the loop is over: the final flushKV, and emitLLMD returns out
EmitEnd ==
  /\ pc = "emitloop"
  /\ nodeIdx > Len(ir)
  /\ SetEmitState(flushKV(EmitState, config))
  /\ pc' = "c0"
  /\ UNCHANGED <<text, config, lines, cleanLines, blocks, ir, nodeIdx, result, calls, prev, auto>>

CompressC0 ==
  /\ pc = "c0"
  /\ out' = IF config.compression >= 0 THEN compressC0(out) ELSE out
  /\ pc' = "c1"
  /\ UNCHANGED <<text, config, lines, cleanLines, blocks, ir, nodeIdx, currentScope,
                 headingStack, kvBuffer, kvLog, emitLog, result, calls, prev, auto>>

CompressC1 ==
  /\ pc = "c1"
  /\ out' = IF config.compression >= 1 THEN compressC1(out) ELSE out
  /\ pc' = "c2"
  /\ UNCHANGED <<text, config, lines, cleanLines, blocks, ir, nodeIdx, currentScope,
                 headingStack, kvBuffer, kvLog, emitLog, result, calls, prev, auto>>

CompressC2 ==
  /\ pc = "c2"
  /\ out' = IF config.compression >= 2 THEN compressC2(out, config) ELSE out
  /\ pc' = "stage6"
  /\ UNCHANGED <<text, config, lines, cleanLines, blocks, ir, nodeIdx, currentScope,
                 headingStack, kvBuffer, kvLog, emitLog, result, calls, prev, auto>>

\* stage6, and compile returns output.join("\n") + "\n"
Stage6 ==
  /\ pc = "stage6"
  /\ out' = stage6(out, config)
  /\ result' = Join(stage6(out, config), <<"\n">>) \o <<"\n">>
  /\ pc' = "done"
  /\ UNCHANGED <<text, config, lines, cleanLines, blocks, ir, nodeIdx, currentScope,
                 headingStack, kvBuffer, kvLog, emitLog, calls, prev, auto>>

Next ==
  \/ Stage0
  \/ Stage1
  \/ Stage2
  \/ EmitBegin
  \/ EmitNode
  \/ EmitEnd
  \/ CompressC0
  \/ CompressC1
  \/ CompressC2
  \/ Stage6

\* ------------------------------------------------------------------------
\* dcs_auto.js: buildAutoDict
\* ------------------------------------------------------------------------
\* n.toString(36)
RECURSIVE base36(_)
base36(n) ==
  IF n < 36 THEN <<(DigitSeq \o LowerSeq)[n + 1]>>
  ELSE base36(n \div 36) \o <<(DigitSeq \o LowerSeq)[(n % 36) + 1]>>

RESERVED_PREFIXES ==
  { <<"~">>, <<"@">>, <<":">>, <<">">>, <<":", ":">>, <<"-", ">">>, <<"<", "-">>, <<"=">>,
    <<"<", "<", "<">>, <<">", ">", ">">> }

isReservedPrefix(s) == \E p \in RESERVED_PREFIXES : StartsWith(s, p)

\* /^[0-9]+([./:_-][0-9]+)*$/
RECURSIVE isNumericLike(_)
isNumericLike(tok) ==
  LET Rest(d) == \/ d = Len(tok)
                 \/ /\ tok[d + 1] \in {".", "/", ":", "_", "-"}
                    /\ isNumericLike(Drop(tok, d + 1)) IN
  SpanLen(tok, Digit) >= 1 /\ Rest(SpanLen(tok, Digit))

isUrlEmailLike(tok) ==
  \/ StartsWith(tok, <<"h", "t", "t", "p", ":", "/", "/">>)
  \/ StartsWith(tok, <<"h", "t", "t", "p", "s", ":", "/", "/">>)
  \/ "@" \in Range(tok)

\* the sum of ceil(len(token) / 4) over the whitespace-separated tokens of s
estTokensFromString(s) ==
  LET RECURSIVE Sum(_)
      Sum(toks) == IF toks = <<>> THEN 0 ELSE (Len(Head(toks)) + 3) \div 4 + Sum(Tail(toks)) IN
  Sum(Tokens(s))

\* the namespaces, in the order buildAutoDict considers them
Namespaces == <<"scope", "key", "value", "text">>

\* the scan of the canonical lines, by the tokens it meets: corpus is the
\* sequence of (namespace, token) the lines hold, and a token is counted
\* (bump) only under `namespacesEnabled[ns]`
bumped(corpus, enabled) == { i \in DOMAIN corpus : enabled[corpus[i].ns] }

\* freqByNS[ns].get(tok) ?? 0
freqByNS(corpus, enabled, ns, tok) ==
  Cardinality({ i \in bumped(corpus, enabled) : corpus[i].ns = ns /\ corpus[i].tok = tok })

\* the set bump fills beside the frequency maps
allSourceTokens(corpus, enabled) == { corpus[i].tok : i \in bumped(corpus, enabled) }

\* baseDict.maps as a set of entries [ns, k, v]; no base dictionary is {}
reservedAliases(baseDict) == { ToLower(e.v) : e \in baseDict }

reservedKeys(baseDict) == { ToLower(e.k) : e \in baseDict }

\* the first letter of the namespace: ns[0], and the alias prefix of nextAlias
NsLetter(ns) ==
  IF ns = "scope" THEN "s" ELSE IF ns = "key" THEN "k" ELSE IF ns = "value" THEN "v" ELSE "t"

\* considerNS(ns, freqByNS[ns]): the candidates of one namespace
considerNS(ns, corpus, cfg, baseDict) ==
  LET Gain(tok, f) ==
        f * Max(0, estTokensFromString(tok) - estTokensFromString(<<NsLetter(ns), "0">>))
      Cand(tok, f) == [ns |-> ns, tok |-> tok, freq |-> f, totalGain |-> Gain(tok, f)]
      Passes(tok, f) ==
        /\ f > 0
        /\ Len(tok) >= cfg.min_len
        /\ f >= cfg.min_freq
        /\ tok \notin cfg.stoplist \cup cfg.protect
        /\ ~isNumericLike(tok) /\ ~isUrlEmailLike(tok)
        /\ tok \notin reservedKeys(baseDict)
        /\ Gain(tok, f) >= cfg.min_gain IN
  IF cfg.namespaces[ns]
  THEN { Cand(tok, freqByNS(corpus, cfg.namespaces, ns, tok)) :
           tok \in { t \in allSourceTokens(corpus, cfg.namespaces) :
                       Passes(t, freqByNS(corpus, cfg.namespaces, ns, t)) } }
  ELSE {}

candidates(corpus, cfg, baseDict) ==
  UNION { considerNS(Namespaces[n], corpus, cfg, baseDict) : n \in DOMAIN Namespaces }

\* namespace priority: key > scope > value > text
nsPri == [key |-> 1, scope |-> 2, value |-> 3, text |-> 4]

\* a token that is a candidate in several namespaces keeps the one of the
\* highest priority
bestByTok(cands) ==
  { c \in cands : \A d \in cands : d.tok = c.tok => nsPri[c.ns] <= nsPri[d.ns] }

\* a.localeCompare(b) < 0 for tokens of digits and lower-case letters
RECURSIVE TokBefore(_, _)
TokBefore(a, b) ==
  LET Rank(c) == CHOOSE i \in 1..36 : (DigitSeq \o LowerSeq)[i] = c IN
  IF a = <<>> THEN b # <<>>
  ELSE IF b = <<>> THEN FALSE
  ELSE IF Head(a) = Head(b) THEN TokBefore(Tail(a), Tail(b))
  ELSE Rank(Head(a)) < Rank(Head(b))

\* the sort comparator is negative: totalGain desc, len(tok) desc, freq desc,
\* tok asc
RankedBefore(a, b) ==
  \/ a.totalGain > b.totalGain
  \/ /\ a.totalGain = b.totalGain
     /\ \/ Len(a.tok) > Len(b.tok)
        \/ /\ Len(a.tok) = Len(b.tok)
           /\ \/ a.freq > b.freq
              \/ a.freq = b.freq /\ TokBefore(a.tok, b.tok)

\* final.sort(...) of candidates with distinct tokens
RECURSIVE Ranked(_)
Ranked(cands) ==
  LET Rest(first) == <<first>> \o Ranked(cands \ {first}) IN
  IF cands = {} THEN <<>>
  ELSE Rest(CHOOSE a \in cands : \A b \in cands \ {a} : RankedBefore(a, b))

\* final after the cap: final.slice(0, maxEntries)
Final(corpus, cfg, baseDict) ==
  LET Cap(ranked) == Take(ranked, Min(cfg.max_entries, Len(ranked))) IN
  Cap(Ranked(bestByTok(candidates(corpus, cfg, baseDict))))

nextAlias(ns, i) == <<NsLetter(ns)>> \o base36(i)

\* the three tests of the alias search: the alias a is passed over
AliasTaken(a, au) ==
  \/ isReservedPrefix(a)
  \/ a \in au.usedAliases
  \/ au.cfg.strict_no_alias_equals_source_token /\ a \in au.allSourceTokens

\* buildAutoDict is entered with the corpus of the files, cfg and baseDict
EnterAuto(corpus, cfg, baseDict) ==
  auto = [pc |-> "scan", corpus |-> corpus, cfg |-> cfg, baseDict |-> baseDict,
          allSourceTokens |-> {}, final |-> <<>>, usedAliases |-> {},
          counters |-> [scope |-> 0, key |-> 0, value |-> 0, text |-> 0],
          c |-> 1, i |-> 0, maps |-> {}]

\* the files are read and their tokens counted
Scan ==
  /\ auto.pc = "scan"
  /\ auto' = [auto EXCEPT !.pc = "select",
                          !.allSourceTokens = allSourceTokens(auto.corpus, auto.cfg.namespaces)]
  /\ UNCHANGED <<pc, text, config, lines, cleanLines, blocks, ir, nodeIdx, out, currentScope,
                 headingStack, kvBuffer, kvLog, emitLog, result, calls, prev>>

\* candidates, the best namespace of each token, rank and cap; usedAliases
\* starts as the aliases of the base dictionary, and the search of the first
\* candidate starts at its namespace's counter
Select ==
  /\ auto.pc = "select"
  /\ auto' = [auto EXCEPT !.pc = "assign",
                          !.final = Final(auto.corpus, auto.cfg, auto.baseDict),
                          !.usedAliases = reservedAliases(auto.baseDict),
                          !.c = 1,
                          !.i = 0]
  /\ UNCHANGED <<pc, text, config, lines, cleanLines, blocks, ir, nodeIdx, out, currentScope,
                 headingStack, kvBuffer, kvLog, emitLog, result, calls, prev>>

\* one iteration of `while (true)` for the candidate final[c]: the alias is
\* passed over and i incremented, or it is accepted and the loop goes on
\* to the next candidate
Probe ==
  /\ auto.pc = "assign"
  /\ auto.c <= Len(auto.final)
  /\ LET Accept(ns, tok, a) ==
           [auto EXCEPT !.maps = @ \cup {[ns |-> ns, tok |-> tok, alias |-> a]},
                        !.usedAliases = @ \cup {a},
                        !.counters[ns] = auto.i + 1,
                        !.c = @ + 1,
                        !.i = IF auto.c + 1 <= Len(auto.final)
                              THEN (IF auto.final[auto.c + 1].ns = ns THEN auto.i + 1
                                    ELSE auto.counters[auto.final[auto.c + 1].ns])
                              ELSE 0]
         Try(ns, tok, a) ==
           IF AliasTaken(a, auto) THEN [auto EXCEPT !.i = @ + 1] ELSE Accept(ns, tok, a)
         Cand(cand) == Try(cand.ns, cand.tok, ToLower(nextAlias(cand.ns, auto.i))) IN
     auto' = Cand(auto.final[auto.c])
  /\ UNCHANGED <<pc, text, config, lines, cleanLines, blocks, ir, nodeIdx, out, currentScope,
                 headingStack, kvBuffer, kvLog, emitLog, result, calls, prev>>

\* every candidate has its alias: dictOut is returned
Return ==
  /\ auto.pc = "assign"
  /\ auto.c > Len(auto.final)
  /\ auto' = [auto EXCEPT !.pc = "done"]
  /\ UNCHANGED <<pc, text, config, lines, cleanLines, blocks, ir, nodeIdx, out, currentScope,
                 headingStack, kvBuffer, kvLog, emitLog, result, calls, prev>>

NextAuto ==
  \/ Scan
  \/ Select
  \/ Probe
  \/ Return

\* ------------------------------------------------------------------------
\* Inputs
\* ------------------------------------------------------------------------
\* the defaults of the options (config.x ?? default), min_prefix_pct 0.6 as 3/5;
\* the word lists and maps default to empty
DefaultConfig ==
  [compression |-> 2, scope_mode |-> "flat", keep_urls |-> FALSE, sentence_split |-> FALSE,
   anchor_every |-> 0, max_kv_per_line |-> 4, prefix_extraction |-> TRUE,
   min_prefix_len |-> 6, min_prefix_pct |-> [num |-> 3, den |-> 5], bool_compress |-> TRUE,
   stopwords |-> {}, protect_words |-> {}, phrase_map |-> <<>>, units |-> <<>>]

\* the documents of at most n lines over the line vocabulary vocab
Docs(vocab, n) == UNION { [1..k -> vocab] : k \in 0..n }

\* the source text of a document
Source(doc) == Join(doc, <<"\n">>)

\* the number of lines of a document
MaxLines == 4

\* Fenced blocks: fences with and without a language tag, a payload line with
\* leading and inner white space, a heading, a blank line and a source line that
\* has the form of a placeholder
BlockVocab ==
  { <<Backtick, Backtick, Backtick>>,
    <<Backtick, Backtick, Backtick, "j", "s">>,
    <<" ", "a", " ", " ", "b">>,
    <<>>,
    <<"#", " ", "H">>,
    Placeholder(0) }

BlockConfigs ==
  { [DefaultConfig EXCEPT !.compression = c, !.anchor_every = a] :
      c \in 0..2, a \in 0..2 }

\* one compile call: Init is the entry to compile
InitBlocks ==
  /\ \E doc \in Docs(BlockVocab, MaxLines), cfg \in BlockConfigs : Enter(Source(doc), cfg)
  /\ calls = 1
  /\ prev = <<>>

SpecBlocks == InitBlocks /\ [][Next]_vars

\* Scopes: a heading, a deeper heading whose text normalizes to the empty name,
\* and one line of each kind of content
ScopeVocab ==
  { <<"#", " ", "H">>,
    <<"#", "#", " ", "!">>,
    <<"t">>,
    <<"-", " ", "l">>,
    <<"k", ":", " ", "v">>,
    <<Backtick, Backtick, Backtick>> }

ScopeConfigs ==
  { [DefaultConfig EXCEPT !.compression = c, !.scope_mode = m, !.anchor_every = a] :
      c \in {0, 2}, m \in {"flat", "concat"}, a \in {0, 2} }

InitScope ==
  /\ \E doc \in Docs(ScopeVocab, MaxLines), cfg \in ScopeConfigs : Enter(Source(doc), cfg)
  /\ calls = 1
  /\ prev = <<>>

SpecScope == InitScope /\ [][Next]_vars

\* Repeated calls: compile is called again, with any source and configuration,
\* after a call has returned or thrown. Nothing is reset by the caller: what a
\* call starts from is what its own stages create.
MaxCalls == 3

HeadingH == <<"#", " ", "H">>

HeadingS == <<"#", "#", " ", "S">>

TextT == <<"t">>

RepeatDocs ==
  { <<>>,
    <<TextT>>,
    <<HeadingH, TextT>>,
    <<HeadingS, TextT>>,
    <<HeadingH, HeadingS, TextT>>,
    <<TextT, HeadingH>> }

RepeatConfigs ==
  { [DefaultConfig EXCEPT !.compression = 0, !.scope_mode = m] : m \in {"flat", "concat"} }

Outcome == [text |-> text, config |-> config, pc |-> pc, result |-> result]

Restart ==
  /\ pc \in {"done", "threw"}
  /\ calls < MaxCalls
  /\ \E doc \in RepeatDocs, cfg \in RepeatConfigs :
       /\ text' = Source(doc)
       /\ config' = cfg
  /\ pc' = "stage0"
  /\ result' = <<>>
  /\ calls' = calls + 1
  /\ prev' = Append(prev, Outcome)
  /\ UNCHANGED <<lines, cleanLines, blocks, ir, nodeIdx, out, currentScope,
                 headingStack, kvBuffer, kvLog, emitLog, auto>>

NextRepeat ==
  \/ Stage0
  \/ Stage1
  \/ Stage2
  \/ EmitBegin
  \/ EmitNode
  \/ EmitEnd
  \/ CompressC0
  \/ CompressC1
  \/ CompressC2
  \/ Stage6
  \/ Restart

InitRepeat ==
  /\ \E doc \in RepeatDocs, cfg \in RepeatConfigs : Enter(Source(doc), cfg)
  /\ calls = 1
  /\ prev = <<>>

SpecRepeat == InitRepeat /\ [][NextRepeat]_vars

\* Key-value batches: three keys with the prefix sec_, a key without it, and a
\* paragraph that ends a batch; the unit map holds the unit sec
KVVocab ==
  { <<"s", "e", "c", "_", "a", ":", " ", "1">>,
    <<"s", "e", "c", "_", "b", ":", " ", "2">>,
    <<"s", "e", "c", "_", "c", ":", " ", "3">>,
    <<"n", ":", " ", "4">>,
    <<"t">> }

UnitSec == <<<<"s", "e", "c">>, <<"s">>>>

KVConfigs ==
  { [DefaultConfig EXCEPT !.compression = c, !.max_kv_per_line = n, !.min_prefix_len = 3,
                          !.units = <<UnitSec>>] :
      c \in 0..2, n \in 1..2 }

InitKV ==
  /\ \E doc \in Docs(KVVocab, MaxLines), cfg \in KVConfigs : Enter(Source(doc), cfg)
  /\ calls = 1
  /\ prev = <<>>

SpecKV == InitKV /\ [][Next]_vars

\* Token compaction: lines that hold the phrase due to, in a paragraph, a value,
\* a list item and a heading, with and without the stopword the in between,
\* and the unit sec
C2Vocab ==
  { <<"d", "u", "e", " ", "t", "o", " ", "x">>,
    <<"d", "u", "e", " ", "t", "h", "e", " ", "t", "o">>,
    <<"k", ":", " ", "D", "u", "e", " ", "T", "o">>,
    <<"-", " ", "5", " ", "s", "e", "c">>,
    <<"#", " ", "d", "u", "e", " ", "t", "o">>,
    <<"s", "e", "c", " ", "t", "h", "e">> }

PhraseDueTo == <<<<"d", "u", "e", " ", "t", "o">>, <<"b", "e", "c", "a", "u", "s", "e">>>>

StopwordThe == <<"t", "h", "e">>

C2Configs ==
  { [DefaultConfig EXCEPT !.compression = c, !.phrase_map = <<PhraseDueTo>>,
                          !.units = <<UnitSec>>, !.stopwords = sw] :
      c \in 1..2, sw \in {{}, {StopwordThe}} }

InitC2 ==
  /\ \E doc \in Docs(C2Vocab, MaxLines), cfg \in C2Configs : Enter(Source(doc), cfg)
  /\ calls = 1
  /\ prev = <<>>

SpecC2 == InitC2 /\ [][Next]_vars

\* Text and list lines: a paragraph that starts with a capitalized stopword and
\* ends with a period, a list item, a nested list item that holds a stopword and
\* a protected word, a pair whose value holds a stopword, a heading whose name
\* is a stopword, a thematic break and a fence (a line between two fences is the
\* payload of a block)
TextVocab ==
  { <<"T", "h", "e", " ", "x", ".">>,
    <<"-", " ", "t", "o", " ", "4", "2">>,
    <<" ", " ", "-", " ", "t", "h", "e", " ", "t", "o">>,
    <<"k", ":", " ", "t", "h", "e", " ", "1", ".">>,
    <<"#", " ", "t", "h", "e">>,
    <<"-", "-", "-">>,
    <<Backtick, Backtick, Backtick>> }

StopwordTo == <<"t", "o">>

TextConfigs ==
  { [DefaultConfig EXCEPT !.compression = c, !.stopwords = {StopwordThe, StopwordTo},
                          !.protect_words = {StopwordTo}] :
      c \in 0..2 }

InitText ==
  /\ \E doc \in Docs(TextVocab, MaxLines), cfg \in TextConfigs : Enter(Source(doc), cfg)
  /\ calls = 1
  /\ prev = <<>>

SpecText == InitText /\ [][Next]_vars

\* Heading stack: headings of the levels 2, 3, 2 and 1, the last with a text
\* that normalizes to the empty name, and a paragraph; the documents are those
\* of at most MaxLines lines and the one of ## A, ### B, ## C with a paragraph
\* after each
HeadingA == <<"#", "#", " ", "A">>

HeadingB == <<"#", "#", "#", " ", "B">>

HeadingC == <<"#", "#", " ", "C">>

StackVocab == { HeadingA, HeadingB, HeadingC, <<"#", " ", "!">>, TextT }

StackExample == <<HeadingA, TextT, HeadingB, TextT, HeadingC, TextT>>

StackConfigs ==
  { [DefaultConfig EXCEPT !.compression = c, !.scope_mode = m] :
      c \in {0, 2}, m \in {"flat", "concat", "stacked"} }

InitStack ==
  /\ \E doc \in Docs(StackVocab, MaxLines) \cup {StackExample}, cfg \in StackConfigs :
       Enter(Source(doc), cfg)
  /\ calls = 1
  /\ prev = <<>>

SpecStack == InitStack /\ [][Next]_vars

\* Tables: a header of two columns, one of three and one of a single column, a
\* delimiter row, and data rows whose first cell is an identifier, a lone dot
\* (identifier-like, and its key normalizes to the empty string), an
\* underscore, a number, and a phrase of five words; a row given twice makes a
\* duplicate first cell
TableVocab ==
  { <<"a", "|", "b">>,
    <<"a", "|", "b", "|", "c">>,
    <<"a", "|">>,
    <<"-", "-", "-", "|", "-">>,
    <<"x", "|", "1">>,
    <<".", "|", "2">>,
    <<"_", "|", "3">>,
    <<"1", "|", "2">>,
    <<"p", " ", "q", " ", "r", " ", "s", " ", "t", "|", "1">> }

TableConfigs == { [DefaultConfig EXCEPT !.compression = c] : c \in {0, 2} }

InitTable ==
  /\ \E doc \in Docs(TableVocab, MaxLines), cfg \in TableConfigs : Enter(Source(doc), cfg)
  /\ calls = 1
  /\ prev = <<>>

SpecTable == InitTable /\ [][Next]_vars

\* Prefix extraction: keys whose common prefix ends in a separator (sec_a,
\* sec_b), holds a separator before its end (sec_a three times), holds none
\* (secc), a key that is the common prefix itself (sec_), and a key that shares
\* nothing; the minimum prefix length is 3 or 5
KeyVocab ==
  { <<"s", "e", "c", "_", "a", ":", " ", "1">>,
    <<"s", "e", "c", "_", ":", " ", "5">>,
    <<"s", "e", "c", "_", "b", ":", " ", "2">>,
    <<"s", "e", "c", "c", ":", " ", "3">>,
    <<"n", ":", " ", "4">> }

KeyConfigs ==
  { [DefaultConfig EXCEPT !.compression = c, !.min_prefix_len = m, !.prefix_extraction = x] :
      c \in 0..1, m \in {3, 5}, x \in BOOLEAN }

InitKey ==
  /\ \E doc \in Docs(KeyVocab, MaxLines), cfg \in KeyConfigs : Enter(Source(doc), cfg)
  /\ calls = 1
  /\ prev = <<>>

SpecKey == InitKey /\ [][Next]_vars

\* Anchors: a fence, a payload line that begins with @, a heading and a
\* paragraph, with anchor_every 0, 1 and 2
AnchorVocab ==
  { <<Backtick, Backtick, Backtick>>,
    <<"@", "x">>,
    <<"#", " ", "H">>,
    TextT }

AnchorConfigs ==
  { [DefaultConfig EXCEPT !.compression = c, !.anchor_every = a] :
      c \in {0, 2}, a \in 0..2 }

InitAnchor ==
  /\ \E doc \in Docs(AnchorVocab, MaxLines), cfg \in AnchorConfigs : Enter(Source(doc), cfg)
  /\ calls = 1
  /\ prev = <<>>

SpecAnchor == InitAnchor /\ [][Next]_vars

\* Line bodies: a paragraph, a list item and a nested list item whose whole
\* text is the stopword the, a paragraph whose whole text is a phrase the
\* phrase map replaces by nothing, and a paragraph no rule touches
BodyVocab ==
  { StopwordThe,
    <<"-", " ", "T", "h", "e">>,
    <<" ", " ", "-", " ", "t", "h", "e">>,
    <<"n", "a">>,
    TextT }

PhraseNa == <<<<"n", "a">>, <<>>>>

BodyConfigs ==
  { [DefaultConfig EXCEPT !.compression = c, !.stopwords = {StopwordThe},
                          !.phrase_map = <<PhraseNa>>] :
      c \in 0..2 }

InitBody ==
  /\ \E doc \in Docs(BodyVocab, MaxLines), cfg \in BodyConfigs : Enter(Source(doc), cfg)
  /\ calls = 1
  /\ prev = <<>>

SpecBody == InitBody /\ [][Next]_vars

\* Dictionary generation: the tokens alpha and bravo as keys, alpha and gamma
\* as scopes, and the tokens k0 and s0, which have the form of an alias, in
\* text lines; with and without the text namespace, strict mode, a cap of one
\* entry, and a base dictionary that holds the alias K0
AutoVocab ==
  { [ns |-> "key", tok |-> <<"a", "l", "p", "h", "a">>],
    [ns |-> "key", tok |-> <<"b", "r", "a", "v", "o">>],
    [ns |-> "scope", tok |-> <<"a", "l", "p", "h", "a">>],
    [ns |-> "scope", tok |-> <<"g", "a", "m", "m", "a">>],
    [ns |-> "text", tok |-> <<"k", "0">>],
    [ns |-> "text", tok |-> <<"s", "0">>] }

AutoConfigs ==
  { [min_len |-> 5, min_freq |-> 1, min_gain |-> 1, max_entries |-> e,
     stoplist |-> {}, protect |-> {},
     namespaces |-> [scope |-> TRUE, key |-> TRUE, value |-> TRUE, text |-> t],
     strict_no_alias_equals_source_token |-> s] :
      e \in {1, 256}, t \in BOOLEAN, s \in BOOLEAN }

AutoBases == { {}, {[ns |-> "key", k |-> <<"z", "u", "l", "u">>, v |-> <<"K", "0">>]} }

InitAuto ==
  /\ \E corpus \in Docs(AutoVocab, MaxLines), cfg \in AutoConfigs, baseDict \in AutoBases :
       EnterAuto(corpus, cfg, baseDict)
  /\ pc = "off"
  /\ text = <<>>
  /\ config = DefaultConfig
  /\ lines = <<>>
  /\ cleanLines = <<>>
  /\ blocks = <<>>
  /\ ir = <<>>
  /\ nodeIdx = 0
  /\ out = <<>>
  /\ currentScope = <<>>
  /\ headingStack = <<>>
  /\ kvBuffer = <<>>
  /\ kvLog = <<>>
  /\ emitLog = <<>>
  /\ result = <<>>
  /\ calls = 0
  /\ prev = <<>>

SpecAuto == InitAuto /\ [][NextAuto]_vars

\* ------------------------------------------------------------------------
\* What the claims speak about
\* ------------------------------------------------------------------------
\* the lines of compile's return value (the text before its final LF)
ResultLines ==
  IF Len(result) <= 1 THEN <<>> ELSE SplitChar(Take(result, Len(result) - 1), "\n")

\* the 1-based positions of the lines of ls that equal x
Positions(ls, x) == { i \in DOMAIN ls : ls[i] = x }

\* the payloads of the block groups of ls, in order: the lines after each <<<
\* up to the next >>>
RECURSIVE Payloads(_)
Payloads(ls) ==
  LET opens == Positions(ls, BlockOpen) IN
  IF opens = {} THEN <<>>
  ELSE LET i == SetMin(opens)
           closes == { j \in Positions(ls, BlockClose) : j > i }
           j == IF closes = {} THEN Len(ls) + 1 ELSE SetMin(closes) IN
       <<SubSeq(ls, i + 1, j - 1)>> \o Payloads(Drop(ls, Min(j, Len(ls))))

\* the lines of a block's content; an empty content has no line
ContentLines(content) == IF content = <<>> THEN <<>> ELSE SplitChar(content, "\n")

\* the block_ref nodes of the IR, in order
BlockRefs == SelectIdx(ir, LAMBDA n : n.type = "block_ref")

\* the lines of ls that are <<< or >>>, in order
Markers(ls) == SelectIdx(ls, LAMBDA l : l \in {BlockOpen, BlockClose})

\* the number of fenced regions of the source: the fences stage1's scan closes,
\* and the one still open when the input ends
FencedRegions ==
  LET st == S1Loop(S1Init, lines) IN Len(st.blocks) + (IF st.inBlock THEN 1 ELSE 0)

\* C1: in the output, the payload of every block group is, line for line, the
\* source lines collected between the fences of the block it renders.
C1_PayloadVerbatim ==
  pc = "done" =>
    /\ Len(Payloads(ResultLines)) = Len(BlockRefs)
    /\ \A k \in DOMAIN BlockRefs :
         Payloads(ResultLines)[k] = ContentLines(blocks[BlockRefs[k].index + 1].content)

\* C2: compile is total: no invocation ends in an exception.
C2_NoException == pc # "threw"

\* C3: in the output, <<< and >>> lines are equal in number, alternate open then
\* close, and every <<< line comes right after a :: line.
C3_MarkersBalanced ==
  pc = "done" =>
    LET ls == ResultLines
        ms == Markers(ls) IN
    /\ Cardinality(Positions(ls, BlockOpen)) = Cardinality(Positions(ls, BlockClose))
    /\ \A k \in DOMAIN ms : ms[k] = (IF k % 2 = 1 THEN BlockOpen ELSE BlockClose)
    /\ \A i \in Positions(ls, BlockOpen) : i > 1 /\ StartsWith(ls[i - 1], <<":", ":">>)

\* C4: the number of block groups of the output equals the number of fenced
\* regions of the input, a fence still open at the end of the input included.
C4_GroupPerRegion ==
  pc = "done" => Cardinality(Positions(ResultLines, BlockOpen)) = FencedRegions

\* the scopes resolveScope returns for the heading nodes of nodes, in order
RECURSIVE HeadingScopes(_, _, _)
HeadingScopes(es, nodes, cfg) ==
  IF nodes = <<>> THEN <<>>
  ELSE IF Head(nodes).type = "heading"
  THEN LET r == resolveScope(es, Head(nodes).level, Head(nodes).text, cfg) IN
       <<r.scope>> \o HeadingScopes(r.es, Tail(nodes), cfg)
  ELSE HeadingScopes(es, Tail(nodes), cfg)

ContentTypes == {"paragraph", "list_item", "kv", "table", "block_ref"}

\* content occurs in the source before any heading has produced a scope: the
\* headings ahead of the first content node all resolve to the empty name
ContentBeforeScope ==
  \E k \in DOMAIN ir :
    /\ ir[k].type \in ContentTypes
    /\ \A j \in 1..(k - 1) : ir[j].type \notin ContentTypes
    /\ \A sc \in Range(HeadingScopes(FreshEmitState, Take(ir, k - 1), config)) : sc = <<>>

IsScopeLine(l) == StartsWith(l, <<"@">>)

RootLine == <<"@", "r", "o", "o", "t">>

\* C5: in the output every line that is not an @ line has an @ line before it,
\* and when content precedes every scope-producing heading the first @ line
\* (the first line) is @root.
C5_ScopeFirst ==
  pc = "done" =>
    LET ls == ResultLines IN
    /\ \A i \in DOMAIN ls : ~IsScopeLine(ls[i]) => \E j \in 1..(i - 1) : IsScopeLine(ls[j])
    /\ ContentBeforeScope => ls # <<>> /\ ls[1] = RootLine

\* a source that starts with a silent heading and content: @root leads the output
C5_Witness ==
  /\ pc = "done"
  /\ ContentBeforeScope
  /\ \E j \in DOMAIN ir : ir[j].type = "heading"
  /\ Len(ResultLines) >= 3
  /\ ResultLines[1] = RootLine

\* C6: a call that ends with the source and the configuration of an earlier call
\* ends as that call did, with the same returned text, whatever calls ran between.
C6_Deterministic ==
  pc \in {"done", "threw"} =>
    \A k \in DOMAIN prev :
      (prev[k].text = text /\ prev[k].config = config) =>
        (prev[k].pc = pc /\ prev[k].result = result)

\* a third call repeats the first one's arguments, a call with another source and
\* another result ran in between, and the third call returns what the first did
C6_Witness ==
  /\ pc = "done"
  /\ calls = 3
  /\ prev[1].text = text
  /\ prev[1].config = config
  /\ prev[2].text # text
  /\ prev[2].result # prev[1].result
  /\ headingStack = <<>>
  /\ result = prev[1].result
  /\ Len(result) > 1

PfxHead == <<":", "_", "p", "f", "x", "=">>

\* the pairs of a : line, and the key of a pair
PairTokens(line) == SelectIdx(SplitChar(Tail(line), " "), LAMBDA t : t # <<>>)

KeyOf(tok) == IF Includes(tok, <<"=">>) THEN Take(tok, IndexOf(tok, <<"=">>)) ELSE tok

\* concatenation of a sequence of sequences
RECURSIVE Flatten(_)
Flatten(ss) == IF ss = <<>> THEN <<>> ELSE Head(ss) \o Flatten(Tail(ss))

\* the pairs on the lines ls[from..to], in order
PairsOver(ls, from, to) == Flatten([i \in 1..(to - from + 1) |-> PairTokens(ls[from + i - 1])])

\* the batch whose first line is line i of the output (no anchors, no dropped
\* lines: a batch keeps its place from emission to the final output)
BatchAt(i) == { k \in DOMAIN kvLog : kvLog[k].start + 1 = i }

\* C7: for a :_pfx=P line of the final output, the keys on the following : lines
\* of its batch give back the original normalized keys: P + key for the keys
\* that were rewritten, the key itself for the others.
C7_PrefixRecovers ==
  (pc = "done" /\ config.compression >= 1) =>
    \A i \in DOMAIN ResultLines :
      StartsWith(ResultLines[i], PfxHead) =>
        \A k \in BatchAt(i) :
          LET e == kvLog[k]
              P == Drop(ResultLines[i], Len(PfxHead))
              toks == PairsOver(ResultLines, i + 1, i + e.count - 1) IN
          /\ Len(toks) = Len(e.buffer)
          /\ \A j \in DOMAIN e.buffer :
               IF StartsWith(e.buffer[j].key, e.prefix[1])
               THEN P \o KeyOf(toks[j]) = e.buffer[j].key
               ELSE KeyOf(toks[j]) = e.buffer[j].key

\* the prefixes of at least minLen characters that at least pct of the keys share
SharedPrefixes(keys, minLen, pct) ==
  { P \in UNION { { Take(keys[j], n) : n \in minLen..Len(keys[j]) } : j \in DOMAIN keys } :
      PctReached(Cardinality({ j \in DOMAIN keys : StartsWith(keys[j], P) }), Len(keys), pct) }

BatchKeys(e) == [j \in DOMAIN e.buffer |-> e.buffer[j].key]

\* C8: a batch of 3 or more pairs of which at least min_prefix_pct of the keys
\* share a prefix of at least min_prefix_len characters is emitted as
\* :_pfx=<prefix>, then the pairs, the prefix stripped from the keys that share
\* it and the other keys in full.
C8_PrefixEmitted ==
  (pc = "c0" /\ config.compression >= 1 /\ config.prefix_extraction) =>
    \A k \in DOMAIN kvLog :
      LET e == kvLog[k]
          shared == SharedPrefixes(BatchKeys(e), config.min_prefix_len, config.min_prefix_pct) IN
      (Len(e.buffer) >= 3 /\ shared # {}) =>
        \E P \in shared :
          /\ out[e.start + 1] = PfxHead \o P
          /\ LET toks == PairsOver(out, e.start + 2, e.start + e.count) IN
             /\ Len(toks) = Len(e.buffer)
             /\ \A j \in DOMAIN e.buffer :
                  KeyOf(toks[j]) = IF StartsWith(e.buffer[j].key, P)
                                   THEN Drop(e.buffer[j].key, Len(P))
                                   ELSE e.buffer[j].key

\* the pairs of a batch as flushKV writes them: the key without the extracted
\* prefix, =, the value
Written(e) ==
  [j \in DOMAIN e.buffer |->
     (IF e.prefix # <<>> /\ StartsWith(e.buffer[j].key, e.prefix[1])
      THEN Drop(e.buffer[j].key, Len(e.prefix[1])) ELSE e.buffer[j].key)
     \o <<"=">> \o e.buffer[j].value]

IsPairLine(l) == StartsWith(l, <<":">>) /\ ~StartsWith(l, <<":", ":">>) /\ ~StartsWith(l, <<":", "_">>)

\* C9: in what emitLLMD returns, the pair lines of a batch hold its pairs each
\* once and in buffer order; at compression >= 1 no pair line holds more than
\* max_kv_per_line pairs, in the final output either; at compression 0 every
\* line of a batch is one pair :<key>=<value>.
C9_Chunked ==
  /\ pc = "c0" =>
       \A k \in DOMAIN kvLog :
         LET e == kvLog[k]
             first == e.start + (IF e.prefix # <<>> THEN 2 ELSE 1)
             last == e.start + e.count IN
         /\ PairsOver(out, first, last) = Written(e)
         /\ \A i \in first..last :
              /\ IsPairLine(out[i])
              /\ Len(PairTokens(out[i])) >= 1
              /\ config.compression >= 1 => Len(PairTokens(out[i])) <= config.max_kv_per_line
              /\ config.compression = 0 => Len(PairTokens(out[i])) = 1
         /\ config.compression = 0 =>
              /\ e.count = Len(e.buffer)
              /\ \A j \in DOMAIN e.buffer :
                   out[e.start + j] = <<":">> \o e.buffer[j].key \o <<"=">> \o e.buffer[j].value
  /\ (pc = "done" /\ config.compression >= 1) =>
       \A i \in DOMAIN ResultLines :
         IsPairLine(ResultLines[i]) => Len(PairTokens(ResultLines[i])) <= config.max_kv_per_line

\* a batch of three pairs was written at compression >= 1 over more than one
\* pair line, after its :_pfx line
C9_Witness ==
  /\ pc = "c0"
  /\ config.compression >= 1
  /\ config.max_kv_per_line = 2
  /\ \E k \in DOMAIN kvLog :
       /\ Len(kvLog[k].buffer) = 3
       /\ kvLog[k].prefix # <<>>
       /\ kvLog[k].count = 3
       /\ Len(PairTokens(out[kvLog[k].start + 3])) = 1

\* line i of ls is a payload line: the last marker line before it is <<<
InPayload(ls, i) ==
  LET ms == { j \in 1..(i - 1) : ls[j] \in {BlockOpen, BlockClose} } IN
  ms # {} /\ ls[SetMax(ms)] = BlockOpen

\* C10: in the output at compression 2 with a non-empty phrase map, a line that
\* is no block payload, :: header, marker or scope line contains no source phrase
\* of the phrase map, whatever the case of its letters, and no source phrase of
\* the unit map.
C10_NoSourcePhrase ==
  (pc = "done" /\ config.compression = 2 /\ config.phrase_map # <<>>) =>
    \A i \in DOMAIN ResultLines :
      LET l == ResultLines[i] IN
      (/\ ~InPayload(ResultLines, i)
       /\ l \notin {BlockOpen, BlockClose}
       /\ ~StartsWith(l, <<":", ":">>)
       /\ ~IsScopeLine(l)) =>
        /\ \A k \in DOMAIN config.phrase_map :
             ~Includes(ToLower(l), ToLower(config.phrase_map[k][1]))
        /\ \A k \in DOMAIN config.units : ~Includes(l, config.units[k][1])

\* line i of ls is a text or list line: compile writes both with the prefix >
IsTextOrListLine(ls, i) ==
  /\ ~InPayload(ls, i)
  /\ StartsWith(ls[i], <<">">>)
  /\ ls[i] # BlockClose

\* the token t is one the rule drops: its letters-only lower-case core is
\* non-empty, is a stop word and is no protected word
Droppable(t, cfg) ==
  LET core == LetterCore(t) IN
  /\ core # <<>>
  /\ core \in { ToLower(w) : w \in cfg.stopwords }
  /\ core \notin { ToLower(w) : w \in cfg.protect_words }

\* C11: the compression-2 pass (phrase and unit maps empty) maps a text or list
\* line to its prefix and its tokens joined by one space, less exactly the
\* tokens whose letters-only lower-case core is non-empty, a stop word and no
\* protected word; every attribute, scope, block-marker and payload line is
\* left as it is.
C11_StopwordsOnly ==
  [][(pc = "c2" /\ config.compression >= 2) =>
       /\ Len(out') = Len(out)
       /\ \A i \in DOMAIN out :
            IF IsTextOrListLine(out, i)
            THEN out'[i] = <<">">> \o Join(SelectIdx(Tokens(Tail(out[i])),
                                                     LAMBDA t : ~Droppable(t, config)),
                                           <<" ">>)
            ELSE out'[i] = out[i]]_vars

\* after the pass: a nested list line has lost its stopword and kept the
\* protected word, a text line has lost its capitalized stopword, and a pair
\* line still holds the stopword
C11_Witness ==
  /\ pc = "stage6"
  /\ config.compression = 2
  /\ \E i \in DOMAIN out : out[i] = <<">", ".", " ", "t", "o">>
  /\ \E i \in DOMAIN out : out[i] = <<">", "x", ".">>
  /\ \E i \in DOMAIN out : out[i] = <<":", "k", "=", "t", "h", "e", " ", "1", ".">>

\* s.endsWith(p)
EndsWith(s, p) == Len(p) <= Len(s) /\ SubSeq(s, Len(s) - Len(p) + 1, Len(s)) = p

\* the line ends with a period that is no part of ..., e.g., i.e. or etc.
EndsWithPlainPeriod(s) ==
  /\ EndsWith(s, <<".">>)
  /\ ~EndsWith(s, <<".", ".", ".">>)
  /\ ~EndsWith(s, <<"e", ".", "g", ".">>)
  /\ ~EndsWith(s, <<"i", ".", "e", ".">>)
  /\ ~EndsWith(s, <<"e", "t", "c", ".">>)

\* a text or list line after stopword removal
Stopped(line, cfg) ==
  <<">">> \o Join(SelectIdx(Tokens(Tail(line)), LAMBDA t : ~Droppable(t, cfg)), <<" ">>)

\* C12: the compression-2 pass removes the final period of every text or list
\* line that (after stopword removal) ends with a period and not with ...,
\* e.g., i.e. or etc.; every other line keeps its final character.
C12_TrailingPeriod ==
  [][(pc = "c2" /\ config.compression >= 2) =>
       /\ Len(out') = Len(out)
       /\ \A i \in DOMAIN out :
            IF IsTextOrListLine(out, i)
            THEN out'[i] = IF EndsWithPlainPeriod(Stopped(out[i], config))
                           THEN Take(Stopped(out[i], config), Len(Stopped(out[i], config)) - 1)
                           ELSE Stopped(out[i], config)
            ELSE /\ out'[i] # <<>>
                 /\ out'[i][Len(out'[i])] = out[i][Len(out[i])]]_vars

\* the heading node the main loop of emitLLMD is about to process
AtHeading == pc = "emitloop" /\ nodeIdx <= Len(ir) /\ ir[nodeIdx].type = "heading"

\* the scope lines of ls, in order
ScopeLines(ls) == SelectIdx(ls, IsScopeLine)

AtTable == pc = "emitloop" /\ nodeIdx <= Len(ir) /\ ir[nodeIdx].type = "table"

\* every row of the table has n cells
HasColumns(rows, n) == \A r \in DOMAIN rows : Len(rows[r]) = n

\* a first-column cell is identifier-like: it starts with a letter, a dot or a
\* hyphen and has at most four whitespace-separated words
IdentifierLike(cell) ==
  /\ Trim(cell) # <<>>
  /\ Head(Trim(cell)) \in Letter \cup {".", "-"}
  /\ Len(Tokens(cell)) <= 4

\* the first cells of the data rows are unique and identifier-like
FirstColumnKeys(rows) ==
  /\ \A r \in 2..Len(rows) : IdentifierLike(rows[r][1])
  /\ \A r1, r2 \in 2..Len(rows) : r1 # r2 => Trim(rows[r1][1]) # Trim(rows[r2][1])

\* the kind the rule gives a table
KindByRule(rows) ==
  IF HasColumns(rows, 2) /\ FirstColumnKeys(rows) THEN "property"
  ELSE IF /\ Len(rows[1]) >= 3 /\ HasColumns(rows, Len(rows[1]))
          /\ FirstColumnKeys(rows) THEN "keyed_multi"
  ELSE "raw"

\* C14: every parsed table, a table with no data row included, is property iff
\* it has two columns and unique identifier-like first cells, keyed_multi iff it
\* has three or more columns and such first cells, and raw otherwise.
C14_ClassifiedByRule ==
  AtTable => classifyTable(ir[nodeIdx].rows) = KindByRule(ir[nodeIdx].rows)

\* /^[-*_]{3,}$/.test(t)
IsThematicBreak(t) == Len(t) >= 3 /\ \A i \in DOMAIN t : t[i] \in {"-", "*", "_"}

\* C15: a source line outside a fence whose trimmed form is a thematic break
\* gives no IR node and no part of a paragraph (no source line of the model
\* holds such a token next to other text, so no paragraph may hold one), and no
\* line of the output outside a block payload has a trimmed form that is a
\* thematic break.
C15_NoThematicBreak ==
  /\ \A k \in DOMAIN ir :
       ir[k].type = "paragraph" =>
         \A j \in DOMAIN Tokens(ir[k].text) : ~IsThematicBreak(Tokens(ir[k].text)[j])
  /\ pc = "done" =>
       \A i \in DOMAIN ResultLines :
         ~InPayload(ResultLines, i) => ~IsThematicBreak(Trim(ResultLines[i]))

\* the index of the last scope line of ls before line i, 0 if there is none
PrevScope(ls, i) ==
  LET before == { j \in 1..(i - 1) : IsScopeLine(ls[j]) } IN
  IF before = {} THEN 0 ELSE SetMax(before)

\* the inserted anchors of ls: the scope lines that repeat the scope line before
\* them (emitLLMD never emits the scope that is current)
Anchors(ls) ==
  { i \in DOMAIN ls : /\ IsScopeLine(ls[i])
                      /\ PrevScope(ls, i) > 0
                      /\ ls[PrevScope(ls, i)] = ls[i] }

\* the lines of ls between the lines j and i that are no payload lines
Counted(ls, j, i) == { k \in (j + 1)..(i - 1) : ~InPayload(ls, k) }

\* ls without the lines whose index is in skip
RECURSIVE Without(_, _, _)
Without(ls, skip, i) ==
  IF i > Len(ls) THEN <<>>
  ELSE (IF i \in skip THEN <<>> ELSE <<ls[i]>>) \o Without(ls, skip, i + 1)

\* C16: with anchor_every = N > 0, stage6 only inserts copies of the active
\* scope line; every inserted anchor comes after exactly N lines that are no
\* scope and no payload lines, counted from the scope line or anchor before it,
\* and no more than N such lines follow a scope line or anchor without an
\* anchor.
C16_AnchorEveryN ==
  [][(pc = "stage6" /\ config.anchor_every > 0) =>
       /\ Without(out', Anchors(out'), 1) = out
       /\ \A i \in Anchors(out') :
            Cardinality(Counted(out', PrevScope(out', i), i)) = config.anchor_every
       /\ \A i \in DOMAIN out' :
            PrevScope(out', i + 1) > 0 =>
              Cardinality(Counted(out', PrevScope(out', i + 1), i + 1))
                <= config.anchor_every]_vars

\* the node of the given type the main loop of emitLLMD is about to process
AtNode(type) == pc = "emitloop" /\ nodeIdx <= Len(ir) /\ ir[nodeIdx].type = type

\* C17: a list item of depth d is emitted as the line -text when d = 0 and as
\* -, d dots, one space and the text when d > 0; a paragraph (sentence
\* splitting off) is emitted as its text, with no prefix character.
C17_ListPrefix ==
  [][/\ AtNode("list_item") =>
          /\ out' # <<>>
          /\ out'[Len(out')] =
               <<"-">> \o [i \in 1..ir[nodeIdx].depth |-> "."]
               \o (IF ir[nodeIdx].depth > 0 THEN <<" ">> ELSE <<>>)
               \o processText(ir[nodeIdx].text, config)
     /\ AtNode("paragraph") =>
          /\ out' # <<>>
          /\ out'[Len(out')] = Trim(processText(ir[nodeIdx].text, config))]_vars

\* the scope the heading of the step resolves to, read from the stack the step
\* leaves: the name pushed in flat mode, the _-join of the names otherwise
ResolvedNext ==
  IF config.scope_mode = "flat" THEN headingStack'[Len(headingStack')].name
  ELSE Join([i \in DOMAIN headingStack' |-> headingStack'[i].name], <<"_">>)

C20_BufferEmptyAtPush ==
  /\ \A k \in DOMAIN emitLog : emitLog[k].pending = 0
  /\ pc \in {"c0", "c1", "c2", "stage6", "done"} => kvBuffer = <<>>

\* the number of heading nodes the main loop of emitLLMD has processed
HeadingsDone ==
  Cardinality({ i \in 1..Min(nodeIdx - 1, Len(ir)) : ir[i].type = "heading" })

\* C21: after any sequence of headings the levels on the heading stack
\* increase strictly from the bottom of the stack to its top.
C21_StackIncreasing ==
  \A i \in 1..(Len(headingStack) - 1) : headingStack[i].level < headingStack[i + 1].level

\* four headings were processed, two of them were taken off the stack again,
\* and two entries of different levels are on the stack
C21_Witness ==
  /\ pc = "emitloop"
  /\ HeadingsDone = 4
  /\ Len(headingStack) = 2
  /\ headingStack[1].level = 2
  /\ headingStack[2].level = 3

\* the lines of ls that have the form of a placeholder (RE_BLOCK_REF on the
\* trimmed line, as stage2 reads them), in order
PlaceholderLines(ls) == SelectIdx(ls, LAMBDA l : MatchBlockRef(Trim(l)) # <<>>)

\* C22: the placeholder lines of the line stream stage1 returns carry the
\* indices 0..N-1, each once and in source order, N being the number of
\* entries of the block table.
C22_PlaceholdersDense ==
  pc \notin {"stage0", "stage1"} =>
    PlaceholderLines(cleanLines) = [k \in 1..Len(blocks) |-> Placeholder(k - 1)]

\* the table nodes of the IR, in order
TableNodes == SelectIdx(ir, LAMBDA n : n.type = "table")

\* the rows differ in length
Ragged(rows) == \E r \in DOMAIN rows : Len(rows[r]) # Len(rows[1])

\* the number of successive lines of ls from the 1-based index i on that are
\* not blank and hold a |
RECURSIVE RowRun(_, _)
RowRun(ls, i) ==
  IF i <= Len(ls) /\ Includes(Trim(ls[i]), <<"|">>) THEN 1 + RowRun(ls, i + 1) ELSE 0

\* the number of | characters of a line
PipeCount(l) == Len(SelectIdx(l, LAMBDA c : c = "|"))

LongestCommon(keys) ==
  Take(keys[1], SetMax({ n \in 0..Len(keys[1]) :
                           \A j \in DOMAIN keys : StartsWith(keys[j], Take(keys[1], n)) }))

\* the positions of the separators -, _ and . in p
SepPositions(p) == { i \in DOMAIN p : p[i] \in {"-", "_", "."} }

\* p up to and including its last separator
ThroughLastSep(p) == IF SepPositions(p) = {} THEN <<>> ELSE Take(p, SetMax(SepPositions(p)))

\* the batches prefix extraction is tried on
Tried(e) == config.compression >= 1 /\ config.prefix_extraction /\ Len(e.buffer) >= 3

\* the first line of the batch is a :_pfx= line
PfxEmitted(e) == e.count >= 1 /\ StartsWith(out[e.start + 1], PfxHead)

RowItem(row) == IF normKey(row[1]) # <<>> THEN normKey(row[1]) ELSE <<">">>

\* the row items of the lines ls, in order: the keys of the pairs of the :
\* lines (the :_col and :_cols headers left out) and one item per > line
RowItems(ls) ==
  Flatten([i \in DOMAIN ls |->
             IF StartsWith(ls[i], <<">">>) THEN << <<">">> >>
             ELSE IF StartsWith(ls[i], <<":">>) /\ ~StartsWith(ls[i], <<":", "_", "c", "o", "l">>)
             THEN [j \in DOMAIN PairTokens(ls[i]) |-> KeyOf(PairTokens(ls[i])[j])]
             ELSE <<>>])

\* C25: the lines emitted for the data rows of a table follow the order of the
\* rows: for a source that is one property or keyed table, the pairs and the
\* raw-fallback lines of what Emit returns come in source row order.
C25_RowsInOrder ==
  (pc = "c0" /\ Len(ir) = 1 /\ ir[1].type = "table"
     /\ classifyTable(ir[1].rows) \in {"property", "keyed_multi"}) =>
    RowItems(out) = [r \in 1..(Len(ir[1].rows) - 1) |-> RowItem(ir[1].rows[r + 1])]

\* the lines of ls that hold pairs: the : lines other than the :_pfx= line
PairLines(ls) ==
  SelectIdx(ls, LAMBDA l : StartsWith(l, <<":">>) /\ ~StartsWith(l, <<":", ":">>)
                           /\ ~StartsWith(l, PfxHead))

\* C26: every pair of a : line of the output has a key of at least one
\* character, also when a prefix was extracted from the keys of its batch.
C26_KeysNotEmpty ==
  pc = "done" =>
    \A i \in DOMAIN PairLines(ResultLines) :
      \A j \in DOMAIN PairTokens(PairLines(ResultLines)[i]) :
        Head(PairTokens(PairLines(ResultLines)[i])[j]) # "="

\* the index of the last scope line of ls before line i that is no payload
\* line, 0 if there is none
PrevEmitScope(ls, i) ==
  LET before == { j \in 1..(i - 1) : IsScopeLine(ls[j]) /\ ~InPayload(ls, j) } IN
  IF before = {} THEN 0 ELSE SetMax(before)

\* the lines of ls outside the block payloads that repeat the scope line
\* Emit produced last before them
EmitAnchors(ls) ==
  { i \in DOMAIN ls : /\ IsScopeLine(ls[i])
                      /\ ~InPayload(ls, i)
                      /\ PrevEmitScope(ls, i) > 0
                      /\ ls[PrevEmitScope(ls, i)] = ls[i] }

\* C27: with anchor_every > 0, stage6 leaves the lines between <<< and >>> as
\* they are and every line it inserts is a copy of the scope line Emit
\* produced last: its output without those copies is its input.
C27_AnchorsOutsideBlocks ==
  [][(pc = "stage6" /\ config.anchor_every > 0) =>
       /\ Payloads(out') = Payloads(out)
       /\ Without(out', EmitAnchors(out'), 1) = out]_vars

\* the body of a text or list line: what follows the prefix character and the
\* depth dots
LineBody(l) == Trim(Drop(Tail(l), SpanLen(Tail(l), {"."})))

\* C28: at every compression level, each text or list line of the output
\* has a body of at least one character after its prefix character and its
\* depth dots.
C28_BodyNotEmpty ==
  pc = "done" =>
    \A i \in DOMAIN ResultLines :
      IsTextOrListLine(ResultLines, i) => LineBody(ResultLines[i]) # <<>>

\* the lines of ls that do not begin with @, in order
NonScopeLines(ls) == SelectIdx(ls, LAMBDA l : ~StartsWith(l, <<"@">>))

\* C29: stage6 only inserts @ lines. Its input is what compile returns with
\* anchor_every = 0, the stages before it not reading the option: with
\* anchor_every = 0 it returns its input unchanged, and for N > 0 the lines
\* of its output that do not begin with @ are those of its input, in order.
C29_OnlyScopeLinesInserted ==
  [][pc = "stage6" =>
       /\ config.anchor_every = 0 => out' = out
       /\ config.anchor_every > 0 => NonScopeLines(out') = NonScopeLines(out)]_vars

\* stage6 ran with anchor_every = 1 on the output of a paragraph and an open
\* fence with the payload @x: it inserted anchors, and the lines that do not
\* begin with @ are the four that Emit produced
C29_Witness ==
  /\ pc = "done"
  /\ config.anchor_every = 1
  /\ Len(out) > 6
  /\ NonScopeLines(out) = << <<">", "t">>, <<":", ":", "c", "o", "d", "e">>,
                             BlockOpen, BlockClose >>

\* every token of the source files, whatever the namespace of its line
SourceTokens == { auto.corpus[i].tok : i \in DOMAIN auto.corpus }

\* the aliases of the base dictionary, as written in it
BaseAliases == { e.v : e \in auto.baseDict }

\* C30: in the dictionary dcs_auto generates, the aliases are pairwise
\* distinct across the namespaces, none is an alias of the base dictionary,
\* none starts with a reserved LLMD prefix and, in strict mode, none is a
\* token of the source; the alias search ends for every selected candidate:
\* its index i stays within the number of aliases and tokens it can meet,
\* and the dictionary that is returned holds an alias for every candidate.
C30_AliasesFree ==
  /\ auto.pc \in {"assign", "done"} =>
       /\ \A m1, m2 \in auto.maps : m1.alias = m2.alias => m1 = m2
       /\ \A m \in auto.maps :
            /\ m.alias \notin BaseAliases
            /\ ~isReservedPrefix(m.alias)
            /\ auto.cfg.strict_no_alias_equals_source_token => m.alias \notin SourceTokens
  /\ auto.pc = "assign" => auto.i <= Cardinality(auto.usedAliases \cup SourceTokens)
  /\ auto.pc = "done" => Cardinality(auto.maps) = Len(auto.final)

====
